---- MODULE Spec2Model ----
(***************************************************************************)
(* Naija-Prop-Intel: the property analysis engine (src/analyzer.py), the   *)
(* route corridor search (src/route_search.py) and the agent network       *)
(* (src/agents.py).                                                        *)
(*                                                                         *)
(* Conventions of the model                                                *)
(*  - a Python str is a sequence of one-character strings;                 *)
(*  - zones_data, an insertion-ordered dict, is a sequence of zone records *)
(*    whose field key is the dict key (keys are pairwise different); the   *)
(*    display name zone['location'] of a zone is taken to be its key;      *)
(*  - money is an integer number of naira;                                 *)
(*  - a rate (rental_yield, 5yr_appreciation) is kept in hundredths, so    *)
(*    0.05 is 5, and a quantity "price x rate" is kept multiplied by       *)
(*    Percent, which makes it an exact integer;                            *)
(*  - smart_score is kept in tenths (44.5 is 445).  For integer scores in  *)
(*    0..100 the double-precision sum flood_safety*0.4 + security*0.3 +    *)
(*    infrastructure*0.3 is within 1e-13 of the exact multiple of 0.1, so  *)
(*    round(x, 1) is that multiple and the comparisons with 80 and 65      *)
(*    agree with the exact ones;                                           *)
(*  - a value formatted with a fixed number of decimals is the rounded     *)
(*    value; when the exact value lies half-way between two neighbours the *)
(*    binary double may fall on either side, so both are possible results; *)
(*  - a Python exception leaving the method is the result                  *)
(*    [exception |-> <name>].                                              *)
(***************************************************************************)
EXTENDS Integers, Sequences, FiniteSets, TLC

VARIABLES zones_data, agents_db, call, result

vars == <<zones_data, agents_db, call, result>>

----------------------------------------------------------------------------
(* Strings *)

\* str.lower() on one character
LowerChar(c) ==
    CASE c = "A" -> "a"
      [] c = "B" -> "b"
      [] c = "C" -> "c"
      [] OTHER -> c

\* str.lower()
Lower(s) == [k \in 1..Len(s) |-> LowerChar(s[k])]

\* ord() of the characters that occur in locality names
CodePoint(c) ==
    CASE c = " " -> 32
      [] c = "A" -> 65
      [] c = "B" -> 66
      [] c = "C" -> 67
      [] c = "a" -> 97
      [] c = "b" -> 98
      [] c = "c" -> 99
      [] OTHER -> 0

\* s < t for two str: the comparison sorted() uses
StrLess(s, t) ==
    \E k \in 1..(Len(s) + 1) :
        /\ \A j \in 1..(k - 1) : j <= Len(t) /\ s[j] = t[j]
        /\ \/ k = Len(s) + 1 /\ Len(t) >= k
           \/ k <= Len(s) /\ k <= Len(t) /\ CodePoint(s[k]) < CodePoint(t[k])

\* `needle in hay` for two str
Contains(hay, needle) ==
    \E off \in 0..(Len(hay) - Len(needle)) :
        \A j \in 1..Len(needle) : hay[off + j] = needle[j]

----------------------------------------------------------------------------
(* The zones database *)

\* the keys of zones_data, in iteration order
Keys(zd) == [k \in 1..Len(zd) |-> zd[k].key]

KeySet(zd) == {zd[k].key : k \in 1..Len(zd)}

\* zones_data[key]
ZoneAt(zd, key) == zd[CHOOSE k \in 1..Len(zd) : zd[k].key = key]

\* PropertyAnalyzer.get_available_locations
GetAvailableLocations(zd) == SortSeq(Keys(zd), StrLess)

\* first index from k on whose key satisfies Test, 0 when there is none:
\* the `for key in self.zones_data.keys(): if ...: return key` loops
RECURSIVE FirstKeyFrom(_, _, _, _)
FirstKeyFrom(zd, k, lowered, exact) ==
    IF k > Len(zd) THEN 0
    ELSE IF (IF exact THEN Lower(zd[k].key) = lowered
                      ELSE Contains(Lower(zd[k].key), lowered))
         THEN k
         ELSE FirstKeyFrom(zd, k + 1, lowered, exact)

\* _normalize_location with the two loops merged into one that tests each
\* key for equality ignoring case or containment
NormalizeLocation_OneLoop(zd, location) ==
    IF location \in KeySet(zd) THEN location
    ELSE LET part == FirstKeyFrom(zd, 1, Lower(location), FALSE)
         IN  IF part # 0 THEN zd[part].key ELSE location

\* PropertyAnalyzer._normalize_location
NormalizeLocation(zd, location) ==
    IF location \in KeySet(zd) THEN location
    ELSE LET location_lower == Lower(location)
             ci == FirstKeyFrom(zd, 1, location_lower, TRUE)
             part == FirstKeyFrom(zd, 1, location_lower, FALSE)
         IN  IF ci # 0 THEN zd[ci].key
             ELSE IF part # 0 THEN zd[part].key
             ELSE location

----------------------------------------------------------------------------
(* Numbers *)

\* the 100 of `(net_return / price) * 100`; a rate r of the database is
\* r / Percent
Percent == 100

\* the integers nearest to num / den (den > 0): both neighbours when num / den
\* lies exactly half-way, as the double holding it may fall on either side
RoundChoices(num, den) ==
    LET q == num \div den
        r == num - q * den
    IN  IF 2 * r < den THEN {q}
        ELSE IF 2 * r > den THEN {q + 1}
        ELSE {q, q + 1}

Abs(x) == IF x < 0 THEN -x ELSE x

\* the text of a formatted number: its sign and its rounded magnitude.  A
\* double that is exactly zero in exact arithmetic may carry a rounding error
\* of either sign ("-0.0" and "0.0" are both possible).
Formatted(num, den) ==
    {[neg |-> n, mag |-> Abs(r)] :
        n \in (IF num < 0 THEN {TRUE} ELSE IF num > 0 THEN {FALSE} ELSE BOOLEAN),
        r \in RoundChoices(num, den)}

\* x >= bound for the double x holding num / den (den > 0): decided by the
\* rounding error when num / den equals the bound exactly
GeqChoices(num, den, bound) ==
    IF num > bound * den THEN {TRUE}
    ELSE IF num < bound * den THEN {FALSE}
    ELSE BOOLEAN

----------------------------------------------------------------------------
(* PropertyAnalyzer._evaluate_price *)

\* the naira sign U+20A6, one character of the text
Naira == "N"

\* the en dash U+2013, one character of the text
EnDash == "~"

\* \d
DigitChars == {"0", "1", "2", "3", "4", "5", "6", "7", "8", "9"}

\* \s
Whitespace == {" ", "\t"}

DigitValue(c) ==
    CASE c = "0" -> 0 [] c = "1" -> 1 [] c = "2" -> 2 [] c = "3" -> 3
      [] c = "4" -> 4 [] c = "5" -> 5 [] c = "6" -> 6 [] c = "7" -> 7
      [] c = "8" -> 8 [] c = "9" -> 9

\* float() of a run of digits
RECURSIVE DecValue(_)
DecValue(ds) ==
    IF Len(ds) = 0 THEN 0
    ELSE 10 * DecValue(SubSeq(ds, 1, Len(ds) - 1)) + DigitValue(ds[Len(ds)])

\* the end of the longest run of characters of S that starts at p (greedy
\* \d+ and \s*): the first position from p on that holds no character of S
RECURSIVE RunEnd(_, _, _)
RunEnd(t, p, S) ==
    IF p <= Len(t) /\ t[p] \in S THEN RunEnd(t, p + 1, S) ELSE p

\* the pattern N(\d+)M\s*-\s*N(\d+)M matched at position p of t: the two
\* groups, or <<>> when it does not match there
MatchAt(t, p) ==
    LET e1 == RunEnd(t, p + 1, DigitChars)
        s1 == RunEnd(t, e1 + 1, Whitespace)
        s2 == RunEnd(t, s1 + 1, Whitespace)
        e2 == RunEnd(t, s2 + 1, DigitChars)
    IN  IF /\ p <= Len(t) /\ t[p] = Naira
           /\ e1 > p + 1
           /\ e1 <= Len(t) /\ t[e1] = "M"
           /\ s1 <= Len(t) /\ t[s1] = "-"
           /\ s2 <= Len(t) /\ t[s2] = Naira
           /\ e2 > s2 + 1
           /\ e2 <= Len(t) /\ t[e2] = "M"
        THEN <<SubSeq(t, p + 1, e1 - 1), SubSeq(t, s2 + 1, e2 - 1)>>
        ELSE <<>>

\* re.search: the leftmost match from position p on
RECURSIVE ReSearch(_, _)
ReSearch(t, p) ==
    IF p > Len(t) THEN <<>>
    ELSE IF MatchAt(t, p) # <<>> THEN MatchAt(t, p)
    ELSE ReSearch(t, p + 1)

\* 1_000_000
Million == 1000000

\* the chain with `offered_price < mid_range` for the FAIR band
PriceStatus_FairBelowMid(offered_price, low_range, high_range) ==
    IF offered_price < (low_range \div 10) * 9 THEN "UNDERPRICED"
    ELSE IF 2 * offered_price < low_range + high_range THEN "FAIR"
    ELSE IF offered_price <= high_range THEN "ELEVATED"
    ELSE "OVERPRICED"

\* the if/elif chain of _evaluate_price.  low_range * 0.9 is exact here:
\* low_range is a multiple of 1_000_000
PriceStatus(offered_price, low_range, high_range) ==
    IF offered_price < (low_range \div 10) * 9 THEN "UNDERPRICED"
    ELSE IF 2 * offered_price <= low_range + high_range THEN "FAIR"
    ELSE IF offered_price <= high_range THEN "ELEVATED"
    ELSE "OVERPRICED"

\* _evaluate_price without the `if match:` test: match.group on None raises
EvaluatePrice_NoMatchTest(zd, offered_price, avg_price_sqm, location) ==
    LET price_range == ZoneAt(zd, location).market_data.price_range
        match == ReSearch(price_range, 1)
        low_range == DecValue(match[1]) * Million
        high_range == DecValue(match[2]) * Million
    IN  IF match # <<>>
        THEN [status |-> PriceStatus(offered_price, low_range, high_range),
              market_range |-> price_range,
              offered_price |-> offered_price,
              market_median |-> (low_range + high_range) \div 2]
        ELSE [exception |-> "AttributeError"]

\* PropertyAnalyzer._evaluate_price
EvaluatePrice(zd, offered_price, avg_price_sqm, location) ==
    LET zone == ZoneAt(zd, location)
        price_range == zone.market_data.price_range
        match == ReSearch(price_range, 1)
        low_range == DecValue(match[1]) * Million
        high_range == DecValue(match[2]) * Million
        mid_range == (low_range + high_range) \div 2
    IN  IF match # <<>>
        THEN [status |-> PriceStatus(offered_price, low_range, high_range),
              market_range |-> price_range,
              offered_price |-> offered_price,
              market_median |-> mid_range]
        ELSE [status |-> "UNKNOWN",
              market_range |-> price_range,
              offered_price |-> offered_price]

----------------------------------------------------------------------------
(* PropertyAnalyzer.analyze_property *)

\* the score with the flood risk taken as it is, not inverted
WeightedScore_FloodNotInverted(flood_risk, security_score, infrastructure_score) ==
    flood_risk * 4 + security_score * 3 + infrastructure_score * 3

\* the score with weights 0.4 / 0.4 / 0.3, which do not add up to 1
WeightedScore_WeightsOverOne(flood_risk, security_score, infrastructure_score) ==
    (100 - flood_risk) * 4 + security_score * 4 + infrastructure_score * 3

\* flood_safety * 0.4 + security_score * 0.3 + infrastructure_score * 0.3,
\* in tenths
WeightedScore(flood_risk, security_score, infrastructure_score) ==
    LET flood_safety == 100 - flood_risk
    IN  flood_safety * 4 + security_score * 3 + infrastructure_score * 3

\* the chain with > in place of >=
OverallRisk_Exclusive(smart_score) ==
    IF smart_score > 800 THEN "LOW"
    ELSE IF smart_score > 650 THEN "MODERATE"
    ELSE "HIGH"

\* the if/elif chain on smart_score (in tenths)
OverallRisk(smart_score) ==
    IF smart_score >= 800 THEN "LOW"
    ELSE IF smart_score >= 650 THEN "MODERATE"
    ELSE "HIGH"

\* _calculate_total_hidden with the monthly generator cost added
CalculateTotalHidden_WithGenerator(hidden_costs) ==
    hidden_costs.omo_onile + hidden_costs.land_survey
        + hidden_costs.flood_insurance + hidden_costs.generator_diesel_monthly

\* PropertyAnalyzer._calculate_total_hidden
CalculateTotalHidden(hidden_costs) ==
    hidden_costs.omo_onile + hidden_costs.land_survey
        + hidden_costs.flood_insurance

\* the dict analyze_property returns for a zone of the database
Analysis(zd, location_key, price) ==
    LET zone == ZoneAt(zd, location_key)
        flood_risk == zone.flood_risk.score
        security_score == zone.security.score
        infrastructure_score == zone.infrastructure.score
        smart_score ==
            WeightedScore(flood_risk, security_score, infrastructure_score)
        avg_price_sqm == zone.market_data.avg_price_per_sqm
        price_verdict == EvaluatePrice(zd, price, avg_price_sqm, location_key)
    IN  [location |-> zone.key,
         price_offered |-> price,
         smart_score |-> smart_score,
         overall_risk |-> OverallRisk(smart_score),
         risk_breakdown |->
             [flood_risk |-> flood_risk,
              security |-> security_score,
              infrastructure |-> infrastructure_score],
         price_analysis |-> price_verdict,
         hidden_costs |->
             [omo_onile |-> zone.hidden_costs.omo_onile,
              land_survey |-> zone.hidden_costs.land_survey,
              flood_insurance |-> zone.hidden_costs.flood_insurance,
              monthly_generator |-> zone.hidden_costs.generator_diesel_monthly,
              total_hidden |-> CalculateTotalHidden(zone.hidden_costs)],
         market_intelligence |->
             [avg_price_per_sqm |-> avg_price_sqm,
              typical_range |-> zone.market_data.price_range,
              days_to_sell |-> zone.market_data.days_to_sell_avg]]

\* the error dict with the message alone
NotFound_MessageOnly(zd, location) ==
    [error |-> "not found", location |-> location]

\* the dict both methods return when the location is not in the database
NotFound(zd, location) ==
    [error |-> "not found",
     location |-> location,
     available_locations |-> GetAvailableLocations(zd)]

\* zone[group][field] can be read: a read of a missing key raises KeyError
HasField(zone, group, field) ==
    group \in DOMAIN zone /\ field \in DOMAIN zone[group]

\* one of the reads of the set `reads` raises KeyError on the zone
Lacks(zone, reads) == \E read \in reads : ~HasField(zone, read[1], read[2])

\* the exception a subscript of a missing key propagates to the caller
KeyError == [exception |-> "KeyError"]

HiddenCostReads ==
    {<<"hidden_costs", "omo_onile">>, <<"hidden_costs", "land_survey">>,
     <<"hidden_costs", "flood_insurance">>,
     <<"hidden_costs", "generator_diesel_monthly">>}

\* the numeric fields analyze_property subscripts in the zone
AnalyzeReads ==
    {<<"flood_risk", "score">>, <<"security", "score">>,
     <<"infrastructure", "score">>,
     <<"market_data", "avg_price_per_sqm">>,
     <<"market_data", "appreciation_5yr">>,
     <<"market_data", "rental_yield">>,
     <<"market_data", "days_to_sell_avg">>} \cup HiddenCostReads

AnalyzeProperty(location, price) ==
    LET location_key == NormalizeLocation(zones_data, location)
    IN  /\ call' = [op |-> "analyze_property", location |-> location,
                    price |-> price]
        /\ result' = IF location_key \notin KeySet(zones_data)
                     THEN NotFound(zones_data, location)
                     ELSE IF Lacks(ZoneAt(zones_data, location_key),
                                   AnalyzeReads)
                     THEN KeyError
                     ELSE Analysis(zones_data, location_key, price)
        /\ UNCHANGED <<zones_data, agents_db>>

----------------------------------------------------------------------------
(* PropertyAnalyzer.calculate_roi *)

\* num / den with the sign moved to the numerator
SignedNum(num, den) == IF den < 0 THEN -num ELSE num

\* one_time_costs
OneTimeCosts(hidden) == hidden.omo_onile + hidden.land_survey

\* annual_costs with the monthly generator cost not multiplied by 12
AnnualCosts_MonthlyAsAnnual(hidden) ==
    LET base == hidden.generator_diesel_monthly + hidden.flood_insurance
        with_borehole ==
            IF "borehole_maintenance" \in DOMAIN hidden
            THEN base + hidden.borehole_maintenance ELSE base
    IN  IF "estate_service_charge" \in DOMAIN hidden
        THEN with_borehole + hidden.estate_service_charge ELSE with_borehole

\* annual_costs, with the two optional keys of hidden_costs
AnnualCosts(hidden) ==
    LET monthly_costs == hidden.generator_diesel_monthly
        base == monthly_costs * 12 + hidden.flood_insurance
        with_borehole ==
            IF "borehole_maintenance" \in DOMAIN hidden
            THEN base + hidden.borehole_maintenance ELSE base
    IN  IF "estate_service_charge" \in DOMAIN hidden
        THEN with_borehole + hidden.estate_service_charge ELSE with_borehole

\* total_hidden_costs with the one-time costs charged in every year
TotalHiddenCosts_OneTimeEveryYear(hidden, holding_period) ==
    (OneTimeCosts(hidden) + AnnualCosts(hidden)) * holding_period

\* total_hidden_costs
TotalHiddenCosts(hidden, holding_period) ==
    LET total_recurring_costs == AnnualCosts(hidden) * holding_period
    IN  OneTimeCosts(hidden) + total_recurring_costs

\* gross_return, multiplied by Percent
GrossReturn(zone, price, holding_period) ==
    LET annual_rental_income == price * zone.market_data.rental_yield
        total_rental_income == annual_rental_income * holding_period
        appreciation_total ==
            zone.market_data.appreciation_5yr * holding_period
        capital_gain == price * appreciation_total
    IN  total_rental_income + capital_gain

\* net_return = max(0, gross_return - total_hidden_costs)
NetReturn_ClampedAtZero(zone, price, holding_period) ==
    LET net == GrossReturn(zone, price, holding_period)
                   - Percent * TotalHiddenCosts(zone.hidden_costs, holding_period)
    IN  IF net < 0 THEN 0 ELSE net

\* net_return, multiplied by Percent
NetReturn(zone, price, holding_period) ==
    GrossReturn(zone, price, holding_period)
        - Percent * TotalHiddenCosts(zone.hidden_costs, holding_period)

\* the if/elif chain on roi_percentage, from its three comparisons
RoiVerdict(ge80, ge50, ge30) ==
    IF ge80 THEN "EXCELLENT"
    ELSE IF ge50 THEN "GOOD"
    ELSE IF ge30 THEN "FAIR"
    ELSE "POOR"

\* the verdicts roi_percentage = num / den (den > 0) can get
RoiVerdicts(num, den) ==
    {RoiVerdict(ge80, ge50, ge30) :
        ge80 \in GeqChoices(num, den, 80),
        ge50 \in GeqChoices(num, den, 50),
        ge30 \in GeqChoices(num, den, 30)}

\* the classification with 90 days still High and 150 days still Moderate
Liquidity_BoundsInclusive(days_to_sell_avg) ==
    IF days_to_sell_avg <= 90 THEN "High"
    ELSE IF days_to_sell_avg <= 150 THEN "Moderate"
    ELSE "Low"

\* the "liquidity" conditional expression
Liquidity(days_to_sell_avg) ==
    IF days_to_sell_avg < 90 THEN "High"
    ELSE IF days_to_sell_avg < 150 THEN "Moderate"
    ELSE "Low"

\* the dicts calculate_roi can return for a zone of the database, price # 0
\* and holding_period # 0.  roi_percentage = (net_return / price) * 100 is
\* NetReturn / price, as NetReturn carries the factor Percent.
RoiResults(zd, location_key, price, holding_period) ==
    LET zone == ZoneAt(zd, location_key)
        hidden == zone.hidden_costs
        annual_rental == price * zone.market_data.rental_yield
        capital_gain ==
            price * (zone.market_data.appreciation_5yr * holding_period)
        gross == GrossReturn(zone, price, holding_period)
        net == NetReturn(zone, price, holding_period)
        roi_num == SignedNum(net, price)
        roi_den == Abs(price)
        annual_num == SignedNum(net, price * holding_period)
        annual_den == Abs(price * holding_period)
    IN  {[location |-> zone.key,
          investment_price |-> price,
          holding_period |-> holding_period,
          returns |->
              [rental_income_annual |-> fa,
               rental_income_total |-> ft,
               capital_gain |-> fc,
               gross_return |-> fg],
          costs |->
              [omo_onile |-> hidden.omo_onile,
               land_survey |-> hidden.land_survey,
               one_time_subtotal |-> OneTimeCosts(hidden),
               generator_fuel |-> hidden.generator_diesel_monthly * 12,
               flood_insurance |-> hidden.flood_insurance,
               other_annual |->
                   AnnualCosts(hidden) - hidden.generator_diesel_monthly * 12
                       - hidden.flood_insurance,
               recurring_subtotal |-> AnnualCosts(hidden),
               total_hidden_costs |-> TotalHiddenCosts(hidden, holding_period)],
          net_analysis |->
              [net_return |-> fn,
               roi_percentage |-> fr,
               verdict |-> v,
               annual_roi |-> fy],
          market_context |->
              [days_to_sell |-> zone.market_data.days_to_sell_avg,
               liquidity |-> Liquidity(zone.market_data.days_to_sell_avg)]] :
        fa \in Formatted(annual_rental, Percent),
        ft \in Formatted(annual_rental * holding_period, Percent),
        fc \in Formatted(capital_gain, Percent),
        fg \in Formatted(gross, Percent),
        fn \in Formatted(net, Percent),
        fr \in Formatted(10 * roi_num, roi_den),
        v \in RoiVerdicts(roi_num, roi_den),
        fy \in Formatted(10 * annual_num, annual_den)}

\* the numeric fields calculate_roi subscripts in the zone
RoiReads ==
    {<<"market_data", "rental_yield">>,
     <<"market_data", "appreciation_5yr">>,
     <<"market_data", "days_to_sell_avg">>} \cup HiddenCostReads

CalculateRoi(price, location, holding_period) ==
    LET location_key == NormalizeLocation(zones_data, location)
    IN  /\ call' = [op |-> "calculate_roi", location |-> location,
                    price |-> price, holding_period |-> holding_period]
        /\ IF location_key \notin KeySet(zones_data)
           THEN result' = NotFound(zones_data, location)
           ELSE IF Lacks(ZoneAt(zones_data, location_key), RoiReads)
           THEN result' = KeyError
           ELSE IF price = 0 \/ holding_period = 0
           THEN result' = [exception |-> "ZeroDivisionError"]
           ELSE result' \in
                    RoiResults(zones_data, location_key, price, holding_period)
        /\ UNCHANGED <<zones_data, agents_db>>

----------------------------------------------------------------------------
(***************************************************************************)
(* RouteSearcher (src/route_search.py)                                     *)
(*                                                                         *)
(*  - zones_data is the dict under the key 'zones' of the loaded file, a   *)
(*    zone record having the further field coordinates;                    *)
(*  - a coordinate is kept in ten-thousandths of a degree (6.45 is 64500)  *)
(*    and a distance in hundredths of a kilometre (2.5 km is 250), a       *)
(*    duration in tenths of a minute;                                      *)
(*  - all the coordinates of the model lie on one meridian, where the      *)
(*    haversine formula gives R * |lat2 - lat1| (in radians);              *)
(*  - an Optional value is a sequence: <<>> is None and <<v>> is v;        *)
(*  - gmaps is the Google Maps client, a record of the answers it gives    *)
(*    during one call: geocode[location] and distance_matrix.              *)
(***************************************************************************)

\* RouteSearcher._calculate_distance for two points of one meridian:
\* round(R * c, 2) with R = 6371 and c = |dlat| in radians, which is
\* 1.11195 hundredths of a kilometre for a ten-thousandth of a degree
\* (as the code computes it for |dlat| up to 0.16 degrees)
CalculateDistance(coord1, coord2) ==
    (Abs(coord2.lat - coord1.lat) * 111195 + 50000) \div 100000

\* detour without abs()
Detour_NoAbs(origin, destination, point) ==
    CalculateDistance(origin, point) + CalculateDistance(point, destination)
        - CalculateDistance(origin, destination)

\* detour of _is_along_route
Detour(origin, destination, point) ==
    LET dist_origin_point == CalculateDistance(origin, point)
        dist_point_dest == CalculateDistance(point, destination)
        dist_origin_dest == CalculateDistance(origin, destination)
        total_via_point == dist_origin_point + dist_point_dest
    IN  Abs(total_via_point - dist_origin_dest)

\* The sum and the difference of _is_along_route are taken on doubles.  For
\* these distances <<origin-point, point-destination, origin-destination>>
\* the double abs(d1 + d2 - d3) is one unit in the last place above the
\* decimal value (2.5 + 9.21 - 6.71 gives 5.000000000000001), for the other
\* distances between the places of the model whose detour is 0.01, 5 or 10
\* km it is the double of the decimal value or the one below.
DetourRoundsUp ==
    {<<250, 921, 671>>, <<921, 250, 671>>, <<420, 500, 921>>, <<500, 420, 921>>}

\* RouteSearcher._is_along_route
IsAlongRoute(origin, destination, point, corridor_width_km) ==
    LET detour == Detour(origin, destination, point)
        distances == <<CalculateDistance(origin, point),
                       CalculateDistance(point, destination),
                       CalculateDistance(origin, destination)>>
    IN  IF detour = corridor_width_km
        THEN distances \notin DetourRoundsUp
        ELSE detour < corridor_width_km

\* _calculate_smart_score with the weights 0.4 / 0.3 / 0.3 of the analyzer
CalculateSmartScore_AnalyzerWeights(zone_data) ==
    LET security == zone_data.security.score
        infrastructure == zone_data.infrastructure.score
        flood_risk == 100 - zone_data.flood_risk.score
        smart_score == flood_risk * 40 + security * 30 + infrastructure * 30
        q == smart_score \div 100
        r == smart_score % 100
    IN  IF r < 50 THEN {q}
        ELSE IF r > 50 THEN {q + 1}
        ELSE IF q % 2 = 0 THEN {q}
        ELSE {q, q + 1}

\* the smart scores _calculate_smart_score can return: round() of the double
\* security * 0.35 + infrastructure * 0.35 + flood_risk * 0.30.  A sum that
\* is exactly half-way is rounded to the even neighbour when the double is
\* exact and downwards when the double lies below it.
CalculateSmartScore(zone_data) ==
    LET security == zone_data.security.score
        infrastructure == zone_data.infrastructure.score
        flood_risk == 100 - zone_data.flood_risk.score
        smart_score == security * 35 + infrastructure * 35 + flood_risk * 30
        q == smart_score \div 100
        r == smart_score % 100
    IN  IF r < 50 THEN {q}
        ELSE IF r > 50 THEN {q + 1}
        ELSE IF q % 2 = 0 THEN {q}
        ELSE {q, q + 1}

\* RouteSearcher._get_coordinates: the coordinates of a zone name, else
\* the first result of gmaps.geocode, else None
GetCoordinates(location, zones, gmaps) ==
    IF location \in KeySet(zones)
    THEN <<ZoneAt(zones, location).coordinates>>
    ELSE LET geocode_result == gmaps.geocode[location]
         IN  IF geocode_result.status = "OK"
             THEN <<geocode_result.location>>
             ELSE <<>>

\* _get_route_details with a route that is not found reported as an empty
\* route
GetRouteDetails_NotFoundAsEmpty(gmaps) ==
    LET element == gmaps.distance_matrix
    IN  IF element.status = "raises"
        THEN {[status |-> "ERROR", error |-> element.message]}
        ELSE IF element.status = "OK"
        THEN {[status |-> "OK", distance_km |-> d, duration_minutes |-> t] :
                 d \in RoundChoices(element.distance, 10),
                 t \in RoundChoices(element.duration, 6)}
        ELSE {[status |-> "OK", distance_km |-> 0, duration_minutes |-> 0]}

\* RouteSearcher._get_route_details: the dicts it can return for the answer
\* of gmaps.distance_matrix (an element with a status, or an exception)
GetRouteDetails(gmaps) ==
    LET element == gmaps.distance_matrix
    IN  IF element.status = "raises"
        THEN {[status |-> "ERROR", error |-> element.message]}
        ELSE IF element.status = "OK"
        THEN {[status |-> "OK", distance_km |-> d, duration_minutes |-> t] :
                 d \in RoundChoices(element.distance, 10),
                 t \in RoundChoices(element.duration, 6)}
        ELSE {[status |-> "NOT_FOUND"]}

\* the filters with the security test the wrong way round
PassesFilters_SecurityInverted(zone_data, max_price_per_sqm, min_security_score, max_flood_risk) ==
    LET security == zone_data.security.score
        flood_risk == zone_data.flood_risk.score
        price == zone_data.market_data.avg_price_per_sqm
        price_limited ==
            max_price_per_sqm # <<>> /\ max_price_per_sqm[1] # 0
    IN  /\ ~(price_limited /\ price > max_price_per_sqm[1])
        /\ ~(security > min_security_score)
        /\ ~(flood_risk > max_flood_risk)

\* the three `continue` tests of the loop: TRUE when the zone is kept.
\* `if max_price_per_sqm and ...` is false for None and for 0.
PassesFilters(zone_data, max_price_per_sqm, min_security_score, max_flood_risk) ==
    LET security == zone_data.security.score
        flood_risk == zone_data.flood_risk.score
        price == zone_data.market_data.avg_price_per_sqm
        price_limited ==
            max_price_per_sqm # <<>> /\ max_price_per_sqm[1] # 0
    IN  /\ ~(price_limited /\ price > max_price_per_sqm[1])
        /\ ~(security < min_security_score)
        /\ ~(flood_risk > max_flood_risk)

\* the dict appended for a zone
CorridorProperty(zone_data, origin_coords, smart_score) ==
    [zone_name |-> zone_data.key,
     location |-> zone_data.key,
     distance_from_origin_km |->
         CalculateDistance(origin_coords, zone_data.coordinates),
     coordinates |-> zone_data.coordinates,
     price_per_sqm |-> zone_data.market_data.avg_price_per_sqm,
     price_range |-> zone_data.market_data.price_range,
     security_score |-> zone_data.security.score,
     flood_risk_score |-> zone_data.flood_risk.score,
     infrastructure_score |-> zone_data.infrastructure.score,
     rental_yield |-> zone_data.market_data.rental_yield,
     appreciation_5yr |-> zone_data.market_data.appreciation_5yr,
     smart_score |-> smart_score]

\* the lists corridor_properties can be after the loop over zones.items()
RECURSIVE CorridorProperties(_, _, _, _, _, _, _)
CorridorProperties(zones, origin_coords, dest_coords, corridor_width_km, max_price_per_sqm, min_security_score, max_flood_risk) ==
    IF zones = <<>> THEN {<<>>}
    ELSE LET zone_data == Head(zones)
             rest == CorridorProperties(Tail(zones), origin_coords,
                         dest_coords, corridor_width_km, max_price_per_sqm,
                         min_security_score, max_flood_risk)
         IN  IF /\ IsAlongRoute(origin_coords, dest_coords,
                                 zone_data.coordinates, corridor_width_km)
                /\ PassesFilters(zone_data, max_price_per_sqm,
                                  min_security_score, max_flood_risk)
             THEN {<<CorridorProperty(zone_data, origin_coords, s)>> \o r :
                      s \in CalculateSmartScore(zone_data), r \in rest}
             ELSE rest

\* a sort that puts a dict before the dicts of the same distance
RECURSIVE SortByDistance_TiesReversed(_)
SortByDistance_TiesReversed(properties) ==
    IF properties = <<>> THEN <<>>
    ELSE LET sorted == SortByDistance_TiesReversed(
                           SubSeq(properties, 1, Len(properties) - 1))
             last == properties[Len(properties)]
             n == Cardinality({k \in 1..Len(sorted) :
                      sorted[k].distance_from_origin_km
                          < last.distance_from_origin_km})
         IN  SubSeq(sorted, 1, n) \o <<last>>
                 \o SubSeq(sorted, n + 1, Len(sorted))

\* corridor_properties.sort(key = distance_from_origin_km): list.sort is
\* stable, a dict stays behind the earlier dicts of the same distance
RECURSIVE SortByDistance(_)
SortByDistance(properties) ==
    IF properties = <<>> THEN <<>>
    ELSE LET sorted == SortByDistance(
                           SubSeq(properties, 1, Len(properties) - 1))
             last == properties[Len(properties)]
             n == Cardinality({k \in 1..Len(sorted) :
                      sorted[k].distance_from_origin_km
                          <= last.distance_from_origin_km})
         IN  SubSeq(sorted, 1, n) \o <<last>>
                 \o SubSeq(sorted, n + 1, Len(sorted))

\* the numeric fields the loop subscripts in a zone along the route
FilterReads ==
    {<<"security", "score">>, <<"flood_risk", "score">>,
     <<"market_data", "avg_price_per_sqm">>}

\* the numeric fields it subscripts in a zone that passed the filters
PropertyReads ==
    {<<"infrastructure", "score">>, <<"market_data", "rental_yield">>,
     <<"market_data", "appreciation_5yr">>}

\* the body of the loop raises KeyError on the zone
ZoneRaises(zone_data, origin_coords, dest_coords, corridor_width_km, max_price_per_sqm, min_security_score, max_flood_risk) ==
    /\ IsAlongRoute(origin_coords, dest_coords, zone_data.coordinates,
           corridor_width_km)
    /\ \/ Lacks(zone_data, FilterReads)
       \/ /\ PassesFilters(zone_data, max_price_per_sqm,
                 min_security_score, max_flood_risk)
          /\ Lacks(zone_data, PropertyReads)

\* the message of the error returned when an endpoint has no coordinates
NoCoordinates == "Could not find coordinates for origin or destination"

\* the dicts search_route_corridor can return
SearchResults(zones, origin, destination, corridor_width_km, max_price_per_sqm, min_security_score, max_flood_risk, gmaps) ==
    LET origin_coords == GetCoordinates(origin, zones, gmaps)
        dest_coords == GetCoordinates(destination, zones, gmaps)
        search_params ==
            [corridor_width_km |-> corridor_width_km,
             max_price_per_sqm |-> max_price_per_sqm,
             min_security_score |-> min_security_score,
             max_flood_risk |-> max_flood_risk]
    IN  IF origin_coords = <<>> \/ dest_coords = <<>>
        THEN {[status |-> "ERROR", error |-> NoCoordinates]}
        ELSE UNION {
            IF route_info.status # "OK"
            THEN {route_info}
            ELSE IF \E k \in DOMAIN zones :
                        ZoneRaises(zones[k], origin_coords[1], dest_coords[1],
                            corridor_width_km, max_price_per_sqm,
                            min_security_score, max_flood_risk)
            THEN {KeyError}
            ELSE {[status |-> "OK",
                   route |->
                       [origin |-> origin,
                        destination |-> destination,
                        distance_km |-> route_info.distance_km,
                        duration_minutes |-> route_info.duration_minutes],
                   search_params |-> search_params,
                   properties_found |-> Len(corridor_properties),
                   properties |-> SortByDistance(corridor_properties)] :
                     corridor_properties \in
                         CorridorProperties(zones, origin_coords[1],
                             dest_coords[1], corridor_width_km,
                             max_price_per_sqm, min_security_score,
                             max_flood_risk)} :
                route_info \in GetRouteDetails(gmaps)}

\* RouteSearcher.search_route_corridor
SearchRouteCorridor(origin, destination, corridor_width_km, max_price_per_sqm, min_security_score, max_flood_risk, gmaps) ==
    /\ call' = [op |-> "search_route_corridor", origin |-> origin,
                destination |-> destination, gmaps |-> gmaps,
                corridor_width_km |-> corridor_width_km,
                max_price_per_sqm |-> max_price_per_sqm,
                min_security_score |-> min_security_score,
                max_flood_risk |-> max_flood_risk]
    /\ result' \in SearchResults(zones_data, origin, destination,
                       corridor_width_km, max_price_per_sqm,
                       min_security_score, max_flood_risk, gmaps)
    /\ UNCHANGED <<zones_data, agents_db>>

\* the defaults of the parameters min_security_score and max_flood_risk
DefaultMinSecurityScore == 50

DefaultMaxFloodRisk == 70

\* an area of 40 square metres for every bedroom
EstimatedSqm_PerBedroom(bedrooms) == 40 * bedrooms

\* sqm_estimate.get(bedrooms, 120)
EstimatedSqm(bedrooms) ==
    CASE bedrooms = 2 -> 80
      [] bedrooms = 3 -> 120
      [] bedrooms = 4 -> 160
      [] bedrooms = 5 -> 200
      [] OTHER -> 120

\* int(num / den) for den > 0: the quotient without its fraction
IntOfQuotient(num, den) ==
    IF num >= 0 THEN num \div den ELSE -((-num) \div den)

\* RouteSearcher.search_by_budget_along_route
SearchByBudgetAlongRoute(origin, destination, budget, bedrooms, corridor_width_km, gmaps) ==
    LET estimated_sqm == EstimatedSqm(bedrooms)
        max_price_per_sqm == IntOfQuotient(budget, estimated_sqm)
    IN  /\ call' = [op |-> "search_by_budget_along_route",
                    origin |-> origin, destination |-> destination,
                    budget |-> budget, bedrooms |-> bedrooms,
                    corridor_width_km |-> corridor_width_km,
                    gmaps |-> gmaps]
        /\ result' \in SearchResults(zones_data, origin, destination,
                           corridor_width_km, <<max_price_per_sqm>>,
                           DefaultMinSecurityScore, DefaultMaxFloodRisk,
                           gmaps)
        /\ UNCHANGED <<zones_data, agents_db>>

\* the default of the parameter corridor_width_km: 5 km
DefaultCorridorWidth == 500

RECURSIVE TotalPrice(_)
\* sum(p['price_per_sqm'] for p in properties)
TotalPrice(properties) ==
    IF properties = <<>> THEN 0
    ELSE properties[1].price_per_sqm + TotalPrice(Tail(properties))

\* RouteSearcher._calculate_avg_price: round(total / len(properties)), a
\* quotient half-way between two integers going to the even one
CalculateAvgPrice(properties) ==
    IF properties = <<>> THEN 0
    ELSE LET total == TotalPrice(properties)
             q == total \div Len(properties)
             r == total - q * Len(properties)
         IN  IF 2 * r < Len(properties) THEN q
             ELSE IF 2 * r > Len(properties) THEN q + 1
             ELSE IF q % 2 = 0 THEN q
             ELSE q + 1

\* the dict compare_routes appends for a destination whose search returned
\* the result `searched`: best_property is the first property, or None
Comparison(dest, searched) ==
    [destination |-> dest,
     distance_km |-> searched.route.distance_km,
     duration_minutes |-> searched.route.duration_minutes,
     properties_found |-> searched.properties_found,
     avg_price_per_sqm |->
         IF searched.properties # <<>>
         THEN CalculateAvgPrice(searched.properties) ELSE 0,
     best_property |->
         IF searched.properties # <<>>
         THEN <<searched.properties[1]>> ELSE <<>>]

RECURSIVE Comparisons(_, _, _, _)
\* the loop of compare_routes: the lists `comparisons` it can build, or
\* KeyError when a search raises it. gmaps.distance_matrix gives the answer
\* of the distance matrix to the search of each destination.
Comparisons(zones, origin, destinations, gmaps) ==
    IF destinations = <<>> THEN {[built |-> <<>>]}
    ELSE LET dest == Head(destinations)
             answers ==
                 [geocode |-> gmaps.geocode,
                  distance_matrix |-> gmaps.distance_matrix[dest]]
         IN  UNION {
                 IF searched = KeyError THEN {KeyError}
                 ELSE {IF rest = KeyError THEN KeyError
                       ELSE [built |->
                                (IF searched.status = "OK"
                                 THEN <<Comparison(dest, searched)>>
                                 ELSE <<>>) \o rest.built] :
                          rest \in Comparisons(zones, origin,
                                       Tail(destinations), gmaps)} :
                 searched \in SearchResults(zones, origin, dest,
                                  DefaultCorridorWidth, <<>>,
                                  DefaultMinSecurityScore,
                                  DefaultMaxFloodRisk, answers)}

RECURSIVE SortByFound_Ascending(_)
\* the comparisons sorted with the fewest properties first
SortByFound_Ascending(comparisons) ==
    IF comparisons = <<>> THEN <<>>
    ELSE LET sorted == SortByFound_Ascending(
                           SubSeq(comparisons, 1, Len(comparisons) - 1))
             last == comparisons[Len(comparisons)]
             n == Cardinality({k \in 1..Len(sorted) :
                      sorted[k].properties_found <= last.properties_found})
         IN  SubSeq(sorted, 1, n) \o <<last>>
                 \o SubSeq(sorted, n + 1, Len(sorted))

RECURSIVE SortByFound(_)
\* comparisons.sort(key=properties_found, reverse=True): the most
\* properties first, equal counts in the order of the list
SortByFound(comparisons) ==
    IF comparisons = <<>> THEN <<>>
    ELSE LET sorted == SortByFound(
                           SubSeq(comparisons, 1, Len(comparisons) - 1))
             last == comparisons[Len(comparisons)]
             n == Cardinality({k \in 1..Len(sorted) :
                      sorted[k].properties_found >= last.properties_found})
         IN  SubSeq(sorted, 1, n) \o <<last>>
                 \o SubSeq(sorted, n + 1, Len(sorted))

\* compare_routes that removes from the database the first zone
CompareRoutes_ConsumesZone(origin, destinations, gmaps) ==
    /\ call' = [op |-> "compare_routes", origin |-> origin,
                destinations |-> destinations, gmaps |-> gmaps]
    /\ result' \in {IF comparisons = KeyError THEN KeyError
                     ELSE [comparisons |-> SortByFound(comparisons.built)] :
                       comparisons \in Comparisons(zones_data, origin,
                                           destinations, gmaps)}
    /\ zones_data' = IF zones_data = <<>> THEN <<>> ELSE Tail(zones_data)
    /\ UNCHANGED agents_db

\* RouteSearcher.compare_routes: the result holds the list it returns under
\* the key comparisons
CompareRoutes(origin, destinations, gmaps) ==
    /\ call' = [op |-> "compare_routes", origin |-> origin,
                destinations |-> destinations, gmaps |-> gmaps]
    /\ result' \in {IF comparisons = KeyError THEN KeyError
                     ELSE [comparisons |-> SortByFound(comparisons.built)] :
                       comparisons \in Comparisons(zones_data, origin,
                                           destinations, gmaps)}
    /\ UNCHANGED <<zones_data, agents_db>>

----------------------------------------------------------------------------
(***************************************************************************)
(* AgentNetwork (src/agents.py)                                            *)
(*                                                                         *)
(*  - agents_db is the dict of the database file; its dicts agents,        *)
(*    listings, payments and urgent_requests are functions from an id to   *)
(*    a record, and an id is a number;                                     *)
(*  - uuid4 is taken to give an id that is not in use: the id a method     *)
(*    draws is its parameter uuid;                                         *)
(*  - dates, texts shown to the user and the fields that are only stored   *)
(*    (company, specialization, rating, views, ...) are left out;          *)
(*  - prices, budgets and payments are whole naira.                        *)
(***************************************************************************)

\* an empty dict
NoRecords == [id \in {} |-> id]

\* the database _load_database creates when there is no file
InitialDb ==
    [agents |-> NoRecords,
     listings |-> NoRecords,
     payments |-> NoRecords,
     stats |-> [total_agents |-> 0, verified_agents |-> 0,
                pending_verification |-> 0, total_listings |-> 0]]

\* the characters of a str
Chars(s) == {s[k] : k \in DOMAIN s}

\* AgentNetwork.register_agent
RegisterAgent(name, email, phone, uuid) ==
    LET agents == agents_db.agents
        registered == {id \in DOMAIN agents : agents[id].email = email}
        agent_data ==
            [agent_id |-> uuid, name |-> name, email |-> email,
             phone |-> phone, status |-> "pending",
             verification_badge |-> FALSE, payment_status |-> "unpaid",
             listings_count |-> 0]
    IN  /\ call' = [op |-> "register_agent", name |-> name,
                    email |-> email, phone |-> phone]
        /\ IF Len(name) < 3
           THEN /\ result' = [error |-> "Name must be at least 3 characters"]
                /\ UNCHANGED agents_db
           ELSE IF "@" \notin Chars(email) \/ "." \notin Chars(email)
           THEN /\ result' = [error |-> "Invalid email format"]
                /\ UNCHANGED agents_db
           ELSE IF Len(phone) < 10
           THEN /\ result' = [error |-> "Invalid phone number"]
                /\ UNCHANGED agents_db
           ELSE IF registered # {}
           THEN LET agent_id == CHOOSE id \in registered : TRUE
                IN  /\ result' = [error |-> "Email already registered",
                                  agent_id |-> agent_id,
                                  status |-> agents[agent_id].status]
                    /\ UNCHANGED agents_db
           ELSE /\ agents_db' =
                       [agents_db EXCEPT
                           !.agents = (uuid :> agent_data) @@ @,
                           !.stats.total_agents = @ + 1,
                           !.stats.pending_verification = @ + 1]
                /\ result' = [success |-> TRUE, agent_id |-> uuid,
                              agent_data |-> agent_data]
        /\ UNCHANGED zones_data

\* the price of the verification badge, in naira
BadgeFee == 5000

\* verify_agent that accepts any payment
VerifyAgent_AnyAmount(agent_id, payment_proof, payment_amount, uuid) ==
    LET agents == agents_db.agents
    IN  /\ call' = [op |-> "verify_agent", agent_id |-> agent_id,
                    payment_proof |-> payment_proof,
                    payment_amount |-> payment_amount]
        /\ IF agent_id \notin DOMAIN agents
           THEN /\ result' = [error |-> "Agent ID not found",
                              agent_id |-> agent_id]
                /\ UNCHANGED agents_db
           ELSE IF agents[agent_id].status = "verified"
           THEN /\ result' = [error |-> "Agent already verified",
                              badge_expiry |-> "Lifetime"]
                /\ UNCHANGED agents_db
           ELSE /\ agents_db' =
                       [agents_db EXCEPT
                           !.agents[agent_id] =
                               [status |-> "verified",
                                verification_badge |-> TRUE,
                                payment_status |-> "paid",
                                badge_expiry |-> "Lifetime"] @@ @,
                           !.payments =
                               (uuid :> [payment_id |-> uuid,
                                         agent_id |-> agent_id,
                                         amount |-> payment_amount,
                                         payment_proof |-> payment_proof,
                                         status |-> "confirmed"]) @@ @,
                           !.stats.verified_agents = @ + 1,
                           !.stats.pending_verification = @ - 1]
                /\ result' = [success |-> TRUE, agent_id |-> agent_id,
                              badge_status |-> "VERIFIED",
                              payment_id |-> uuid]
        /\ UNCHANGED zones_data

\* AgentNetwork.verify_agent.  badge_expiry is set with the status
\* 'verified' only, so agent.get('badge_expiry', 'Lifetime') is 'Lifetime'.
VerifyAgent(agent_id, payment_proof, payment_amount, uuid) ==
    LET agents == agents_db.agents
    IN  /\ call' = [op |-> "verify_agent", agent_id |-> agent_id,
                    payment_proof |-> payment_proof,
                    payment_amount |-> payment_amount]
        /\ IF agent_id \notin DOMAIN agents
           THEN /\ result' = [error |-> "Agent ID not found",
                              agent_id |-> agent_id]
                /\ UNCHANGED agents_db
           ELSE IF agents[agent_id].status = "verified"
           THEN /\ result' = [error |-> "Agent already verified",
                              badge_expiry |-> "Lifetime"]
                /\ UNCHANGED agents_db
           ELSE IF payment_amount < BadgeFee
           THEN /\ result' = [error |-> "Insufficient payment",
                              amount |-> payment_amount,
                              required |-> BadgeFee]
                /\ UNCHANGED agents_db
           ELSE /\ agents_db' =
                       [agents_db EXCEPT
                           !.agents[agent_id] =
                               [status |-> "verified",
                                verification_badge |-> TRUE,
                                payment_status |-> "paid",
                                badge_expiry |-> "Lifetime"] @@ @,
                           !.payments =
                               (uuid :> [payment_id |-> uuid,
                                         agent_id |-> agent_id,
                                         amount |-> payment_amount,
                                         payment_proof |-> payment_proof,
                                         status |-> "confirmed"]) @@ @,
                           !.stats.verified_agents = @ + 1,
                           !.stats.pending_verification = @ - 1]
                /\ result' = [success |-> TRUE, agent_id |-> agent_id,
                              badge_status |-> "VERIFIED",
                              payment_id |-> uuid]
        /\ UNCHANGED zones_data

\* required_fields, in the order of the list
RequiredFields == <<"location", "price", "property_type">>

\* the listing saved without the count of the agent's listings
SaveListing_AgentCountKept(agent_id, property_details, uuid) ==
    /\ agents_db' =
           [agents_db EXCEPT
               !.listings =
                   (uuid :> [listing_id |-> uuid,
                             agent_id |-> agent_id,
                             location |-> property_details.location,
                             price |-> property_details.price,
                             property_type |-> property_details.property_type,
                             status |-> "active"]) @@ @,
               !.stats.total_listings = @ + 1]
    /\ result' = [success |-> TRUE, listing_id |-> uuid,
                  reach |-> agents_db.stats.verified_agents]

\* the listing saved, the counters updated and the success returned
SaveListing(agent_id, property_details, uuid) ==
    /\ agents_db' =
           [agents_db EXCEPT
               !.listings =
                   (uuid :> [listing_id |-> uuid,
                             agent_id |-> agent_id,
                             location |-> property_details.location,
                             price |-> property_details.price,
                             property_type |-> property_details.property_type,
                             status |-> "active"]) @@ @,
               !.agents[agent_id].listings_count = @ + 1,
               !.stats.total_listings = @ + 1]
    /\ result' = [success |-> TRUE, listing_id |-> uuid,
                  reach |-> agents_db.stats.verified_agents]

\* post_listing without the test of the verification badge
PostListing_NoBadgeCheck(agent_id, property_details, uuid) ==
    LET agents == agents_db.agents
        missing == {k \in DOMAIN RequiredFields :
                       RequiredFields[k] \notin DOMAIN property_details}
    IN  /\ call' = [op |-> "post_listing", agent_id |-> agent_id,
                    property_details |-> property_details]
        /\ IF agent_id \notin DOMAIN agents
           THEN /\ result' = [error |-> "Agent ID not found",
                              agent_id |-> agent_id]
                /\ UNCHANGED agents_db
           ELSE IF missing # {}
           THEN /\ result' =
                       [error |-> "Missing required field",
                        field |-> RequiredFields[
                            CHOOSE k \in missing :
                                \A j \in missing : k <= j]]
                /\ UNCHANGED agents_db
           ELSE SaveListing(agent_id, property_details, uuid)
        /\ UNCHANGED zones_data

\* AgentNetwork.post_listing
PostListing(agent_id, property_details, uuid) ==
    LET agents == agents_db.agents
        missing == {k \in DOMAIN RequiredFields :
                       RequiredFields[k] \notin DOMAIN property_details}
    IN  /\ call' = [op |-> "post_listing", agent_id |-> agent_id,
                    property_details |-> property_details]
        /\ IF agent_id \notin DOMAIN agents
           THEN /\ result' = [error |-> "Agent ID not found",
                              agent_id |-> agent_id]
                /\ UNCHANGED agents_db
           ELSE IF ~agents[agent_id].verification_badge
           THEN /\ result' = [error |-> "VERIFICATION REQUIRED"]
                /\ UNCHANGED agents_db
           ELSE IF missing # {}
           THEN /\ result' =
                       [error |-> "Missing required field",
                        field |-> RequiredFields[
                            CHOOSE k \in missing :
                                \A j \in missing : k <= j]]
                /\ UNCHANGED agents_db
           ELSE SaveListing(agent_id, property_details, uuid)
        /\ UNCHANGED zones_data

\* AgentNetwork.broadcast_urgent_request
BroadcastUrgentRequest(request_message, requester_name, requester_contact, budget, location, uuid) ==
    LET urgent_request ==
            [request_id |-> uuid, message |-> request_message,
             requester |-> [name |-> requester_name,
                            contact |-> requester_contact],
             details |-> [budget |-> budget, location |-> location],
             status |-> "active"]
        verified_agents ==
            {id \in DOMAIN agents_db.agents :
                agents_db.agents[id].verification_badge}
    IN  /\ call' = [op |-> "broadcast_urgent_request",
                    request_message |-> request_message,
                    requester_name |-> requester_name,
                    requester_contact |-> requester_contact,
                    budget |-> budget, location |-> location]
        /\ agents_db' =
               IF "urgent_requests" \in DOMAIN agents_db
               THEN [agents_db EXCEPT
                        !.urgent_requests = (uuid :> urgent_request) @@ @]
               ELSE agents_db
                        @@ [urgent_requests |-> (uuid :> urgent_request)]
        /\ result' = [success |-> TRUE, request_id |-> uuid,
                      notified_count |-> Cardinality(verified_agents)]
        /\ UNCHANGED zones_data

----------------------------------------------------------------------------
(* The databases and the inputs of the specifications *)

\* "N<lo>M<sep>N<hi>M<suffix>"
RangeText(lo, hi, sep, suffix) ==
    <<Naira>> \o lo \o <<"M">> \o sep \o <<Naira>> \o hi \o <<"M">> \o suffix

SampleHidden ==
    [omo_onile |-> 50000, land_survey |-> 15000, flood_insurance |-> 20000,
     generator_diesel_monthly |-> 8000]

\* a zone record with the fields analyze_property and calculate_roi read
SampleZone(key) ==
    [key |-> key,
     flood_risk |-> [score |-> 75],
     security |-> [score |-> 55],
     infrastructure |-> [score |-> 60],
     market_data |->
         [avg_price_per_sqm |-> 180000,
          price_range |->
              RangeText(<<"2", "5">>, <<"6", "0">>, <<" ", "-", " ">>,
                        <<" ", "(", "3", "b", ")">>),
          appreciation_5yr |-> 8,
          rental_yield |-> 5,
          days_to_sell_avg |-> 120],
     hidden_costs |-> SampleHidden]

NoCall == [op |-> "none"]

NoResult == [none |-> TRUE]

\* -- Spec: databases that differ in their keys and their order

MaxZones == 3

MaxYears == 3

ZoneNames == {<<"A">>, <<"a", "b">>, <<"A", "b">>, <<"b", "a">>, <<"B">>}

LocationInputs ==
    ZoneNames \cup {<<>>, <<"a">>, <<"b">>, <<"c">>, <<"A", "B">>}

MainPrices == {1000000}

KeyLists ==
    {ks \in UNION {[1..n -> ZoneNames] : n \in 0..MaxZones} :
        \A i, j \in DOMAIN ks : i # j => ks[i] # ks[j]}

Init ==
    /\ zones_data \in {[k \in DOMAIN ks |-> SampleZone(ks[k])] : ks \in KeyLists}
    /\ agents_db = InitialDb
    /\ call = NoCall
    /\ result = NoResult

Next ==
    \/ \E location \in LocationInputs, price \in MainPrices :
           AnalyzeProperty(location, price)
    \/ \E location \in LocationInputs, price \in MainPrices,
          holding_period \in 1..MaxYears :
           CalculateRoi(price, location, holding_period)

Spec == Init /\ [][Next]_vars

\* -- SpecInput: one zone, and prices and holding periods of either sign

InputPrices == {-1000000, -1, 0, 1, 1000000}

InputLocations == {<<"a", "b">>, <<"c">>}

InitInput ==
    /\ zones_data \in {<<SampleZone(k)>> : k \in ZoneNames}
    /\ agents_db = InitialDb
    /\ call = NoCall
    /\ result = NoResult

NextInput ==
    \/ \E location \in InputLocations, price \in InputPrices :
           AnalyzeProperty(location, price)
    \/ \E location \in InputLocations, price \in InputPrices,
          holding_period \in -1..MaxYears :
           CalculateRoi(price, location, holding_period)

SpecInput == InitInput /\ [][NextInput]_vars

\* -- SpecScore: one zone, its three scores drawn from a grid of 0..100

ScoreStep == 5

ScoreValues == {k * ScoreStep : k \in 0..(100 \div ScoreStep)}

ScoreKey == <<"A", "b">>

InitScore ==
    /\ zones_data \in
           {<<[SampleZone(ScoreKey) EXCEPT !.flood_risk.score = f,
                                           !.security.score = s,
                                           !.infrastructure.score = i]>> :
               f \in ScoreValues, s \in ScoreValues, i \in ScoreValues}
    /\ agents_db = InitialDb
    /\ call = NoCall
    /\ result = NoResult

NextScore == \E price \in {45 * Million, 1} : AnalyzeProperty(ScoreKey, price)

SpecScore == InitScore /\ [][NextScore]_vars

\* -- SpecPrice: one zone, its price_range text drawn from well-formed and
\* malformed texts, and offered prices on and around every band boundary

RangeNumbers == {<<"2", "5">>, <<"6", "0">>, <<"5">>, <<"0", "5", "8">>}

GoodSeparators == {<<" ", "-", " ">>, <<"-">>, <<" ", " ", "-", "\t">>}

Suffixes == {<<>>, <<" ", "(", "3", "b", ")">>}

WellFormedRanges ==
    {RangeText(lo, hi, sep, suffix) :
        lo \in RangeNumbers, hi \in RangeNumbers,
        sep \in GoodSeparators, suffix \in Suffixes}

\* texts the pattern does not match
MalformedRanges ==
    {<<>>,
     <<"c", "a", "l", "l">>,
     RangeText(<<"2", "5">>, <<"6", "0">>, <<" ", EnDash, " ">>, <<>>),
     RangeText(<<"2", "5">>, <<"6", "0">>, <<" ", "t", "o", " ">>, <<>>),
     RangeText(<<"2", ".", "5">>, <<"6">>, <<" ", "-", " ">>, <<>>),
     RangeText(<<"2", "5", " ">>, <<"6", "0", " ">>, <<" ", "-", " ">>, <<>>),
     RangeText(<<>>, <<"6", "0">>, <<"-">>, <<>>),
     <<Naira, "2", "5", "M", " ", "-", " ", Naira, "6", "0">>,
     <<Naira, "2", "5", "M", " ", "-", " ", "6", "0", "M">>}

RangeValues == {DecValue(n) : n \in RangeNumbers}

PriceInputs ==
    {b + d : b \in {v * 900000 : v \in RangeValues}
                   \cup {(v + w) * 500000 : v \in RangeValues, w \in RangeValues}
                   \cup {v * Million : v \in RangeValues},
             d \in {-1, 0, 1}}
      \cup {70 * Million}

PriceKey == <<"A">>

InitPrice ==
    /\ zones_data \in
           {<<[SampleZone(PriceKey) EXCEPT !.market_data.price_range = t]>> :
               t \in WellFormedRanges \cup MalformedRanges}
    /\ agents_db = InitialDb
    /\ call = NoCall
    /\ result = NoResult

NextPrice == \E price \in PriceInputs : AnalyzeProperty(PriceKey, price)

SpecPrice == InitPrice /\ [][NextPrice]_vars

\* -- SpecRoi: one zone, its rates and hidden costs drawn from small sets,
\* with and without the optional recurring fees, analysed and evaluated

OptionalFees ==
    {[k \in ks |-> IF k = "borehole_maintenance" THEN 5 ELSE 30] :
        ks \in SUBSET {"borehole_maintenance", "estate_service_charge"}}

HiddenChoices ==
    {[omo_onile |-> o, land_survey |-> 150, flood_insurance |-> 20,
      generator_diesel_monthly |-> g] @@ opt :
        o \in {0, 500}, g \in {0, 8}, opt \in OptionalFees}

RoiKey == <<"B">>

RoiPrices == {100, 1000, 8000}

InitRoi ==
    /\ zones_data \in
           {<<[SampleZone(RoiKey) EXCEPT !.hidden_costs = h,
                                         !.market_data.rental_yield = ry,
                                         !.market_data.appreciation_5yr = ar]>> :
               h \in HiddenChoices, ry \in {0, 5}, ar \in {0, 8, 15}}
    /\ agents_db = InitialDb
    /\ call = NoCall
    /\ result = NoResult

NextRoi ==
    \/ \E price \in RoiPrices, holding_period \in 1..MaxYears :
           CalculateRoi(price, RoiKey, holding_period)
    \/ \E price \in RoiPrices : AnalyzeProperty(RoiKey, price)

SpecRoi == InitRoi /\ [][NextRoi]_vars

\* -- SpecVerdict: one zone with whole-percent rates and few hidden costs,
\* the holding periods 1 and 2 and the default one of calculate_roi

VerdictRates == {2, 3, 9, 12, 20}

VerdictHidden ==
    {[omo_onile |-> o, land_survey |-> 0, flood_insurance |-> 0,
      generator_diesel_monthly |-> g] : o \in {0, 500}, g \in {0, 8}}

DefaultHoldingPeriod == 5

HoldingPeriods == {1, 2, DefaultHoldingPeriod}

InitVerdict ==
    /\ zones_data \in
           {<<[SampleZone(RoiKey) EXCEPT !.hidden_costs = h,
                                         !.market_data.rental_yield = 1,
                                         !.market_data.appreciation_5yr = ar]>> :
               h \in VerdictHidden, ar \in VerdictRates}
    /\ agents_db = InitialDb
    /\ call = NoCall
    /\ result = NoResult

NextVerdict ==
    \E price \in {1000, 8000}, holding_period \in HoldingPeriods :
        CalculateRoi(price, RoiKey, holding_period)

SpecVerdict == InitVerdict /\ [][NextVerdict]_vars

\* -- SpecRoute: three of six zones of one meridian, every one of them within
\* the default filters; the endpoints are zone names, geocoded when the zone
\* is not in the database

\* a point of the meridian 3.5 E
PlaceAt(lat) == [lat |-> lat, lng |-> 35000]

\* a zone record with the fields search_route_corridor reads
RouteZone(key, lat, security, flood_risk, price) ==
    [SampleZone(key) EXCEPT !.security.score = security,
                            !.flood_risk.score = flood_risk,
                            !.infrastructure.score = 61,
                            !.market_data.avg_price_per_sqm = price]
        @@ [coordinates |-> PlaceAt(lat)]

\* W lies 2.5 km south of O, and E, M, D, F lie 2.5, 5, 6.71 and 10 km
\* north of it
RouteLatitudes ==
    (<<"W">> :> 64275) @@ (<<"O">> :> 64500) @@ (<<"E">> :> 64725)
        @@ (<<"M">> :> 64950) @@ (<<"D">> :> 65103) @@ (<<"F">> :> 65399)

RouteNames == DOMAIN RouteLatitudes

RouteCatalog ==
    {RouteZone(key, RouteLatitudes[key], 60, 40, 180000) : key \in RouteNames}

\* a geocoder that finds every name of the catalogue
KnownGeocode ==
    [location \in RouteNames |->
        [status |-> "OK", location |-> PlaceAt(RouteLatitudes[location])]]

\* a route of 12.34 km and 25 minutes found by the distance matrix
OkRoute == [status |-> "OK", distance |-> 12340, duration |-> 1500]

\* 0.01 km, the default 5 km, and 10 km
CorridorWidths == {1, 500, 1000}

InitRoute ==
    /\ zones_data \in
           {<<a, b, c>> : a, b, c \in RouteCatalog}
               \ {zs \in {<<a, b, c>> : a, b, c \in RouteCatalog} :
                      \E i, j \in DOMAIN zs : i # j /\ zs[i] = zs[j]}
    /\ agents_db = InitialDb
    /\ call = NoCall
    /\ result = NoResult

NextRoute ==
    \E origin \in {<<"W">>, <<"O">>, <<"M">>},
       destination \in {<<"O">>, <<"D">>, <<"F">>},
       corridor_width_km \in CorridorWidths :
        SearchRouteCorridor(origin, destination, corridor_width_km, <<>>,
            DefaultMinSecurityScore, DefaultMaxFloodRisk,
            [geocode |-> KnownGeocode, distance_matrix |-> OkRoute])

SpecRoute == InitRoute /\ [][NextRoute]_vars

\* -- SpecFilter: the zones E and M of the route from O to F, with scores
\* and prices on both sides of the limits of the call

FilterZones(key) ==
    {RouteZone(key, RouteLatitudes[key], security, flood_risk, price) :
        security \in {40, 50, 60}, flood_risk \in {70, 80},
        price \in {100, 200}}

InitFilter ==
    /\ zones_data \in
           {<<e, m>> : e \in FilterZones(<<"E">>), m \in FilterZones(<<"M">>)}
    /\ agents_db = InitialDb
    /\ call = NoCall
    /\ result = NoResult

NextFilter ==
    \E max_price_per_sqm \in {<<>>, <<0>>, <<100>>, <<150>>},
       min_security_score \in {40, 50, 60},
       max_flood_risk \in {70, 75} :
        SearchRouteCorridor(<<"O">>, <<"F">>, 1000, max_price_per_sqm,
            min_security_score, max_flood_risk,
            [geocode |-> KnownGeocode, distance_matrix |-> OkRoute])

SpecFilter == InitFilter /\ [][NextFilter]_vars

\* -- SpecProvider: two zones, endpoints that are zone names or addresses,
\* and every answer of the geocoder and of the distance matrix

Addresses == {<<"X">>, <<"Y">>}

GeocodeAnswers ==
    {[status |-> "OK", location |-> PlaceAt(RouteLatitudes[<<"M">>])],
     [status |-> "ZERO_RESULTS"], [status |-> "raises"]}

Geocoders ==
    {KnownGeocode @@ (<<"X">> :> x) @@ (<<"Y">> :> y) :
        x \in GeocodeAnswers, y \in GeocodeAnswers}

RouteAnswers ==
    {OkRoute, [status |-> "NOT_FOUND"], [status |-> "ZERO_RESULTS"],
     [status |-> "raises", message |-> "timeout"]}

InitProvider ==
    /\ zones_data \in
           {<<a, b>> : a \in RouteCatalog,
                       b \in {z \in RouteCatalog : z.key = <<"E">>}}
               \ {<<a, a>> : a \in RouteCatalog}
    /\ agents_db = InitialDb
    /\ call = NoCall
    /\ result = NoResult

NextProvider ==
    \E origin \in {<<"O">>, <<"X">>}, destination \in {<<"F">>, <<"Y">>},
       geocode \in Geocoders, distance_matrix \in RouteAnswers :
        SearchRouteCorridor(origin, destination, 500, <<>>,
            DefaultMinSecurityScore, DefaultMaxFloodRisk,
            [geocode |-> geocode, distance_matrix |-> distance_matrix])

SpecProvider == InitProvider /\ [][NextProvider]_vars

\* -- SpecSmart: the zone E of the route from O to F with scores over the
\* whole range, and filters that keep every zone

SmartScoreValues == {0, 10, 50, 61, 100}

InitSmart ==
    /\ zones_data \in
           {<<[RouteZone(<<"E">>, RouteLatitudes[<<"E">>], security,
                         flood_risk, 180000)
                  EXCEPT !.infrastructure.score = infrastructure]>> :
               security \in SmartScoreValues,
               infrastructure \in SmartScoreValues,
               flood_risk \in SmartScoreValues}
    /\ agents_db = InitialDb
    /\ call = NoCall
    /\ result = NoResult

NextSmart ==
    \E corridor_width_km \in CorridorWidths :
        SearchRouteCorridor(<<"O">>, <<"F">>, corridor_width_km, <<>>, 0, 100,
            [geocode |-> KnownGeocode, distance_matrix |-> OkRoute])

SpecSmart == InitSmart /\ [][NextSmart]_vars

\* -- SpecBudget: the zones E and M of the route from O to F at three prices
\* each, budgets below, at and above a multiple of the area, and bedroom
\* counts in and out of the table

BudgetZones(key) ==
    {RouteZone(key, RouteLatitudes[key], 60, 40, price) :
        price \in {100, 150, 200}}

Budgets == {50, 12000, 12060, 16000, 40000}

BedroomCounts == {1, 2, 3, 4, 5, 6}

InitBudget ==
    /\ zones_data \in
           {<<e, m>> : e \in BudgetZones(<<"E">>), m \in BudgetZones(<<"M">>)}
    /\ agents_db = InitialDb
    /\ call = NoCall
    /\ result = NoResult

NextBudget ==
    \E budget \in Budgets, bedrooms \in BedroomCounts :
        SearchByBudgetAlongRoute(<<"O">>, <<"F">>, budget, bedrooms, 1000,
            [geocode |-> KnownGeocode, distance_matrix |-> OkRoute])

SpecBudget == InitBudget /\ [][NextBudget]_vars

\* -- SpecCompare: the zones E, M and F, routes from O to the zones M and F
\* and to the address Y, searches that succeed and searches that fail

CompareDestinations == {<<"M">>, <<"F">>, <<"Y">>}

\* every list of at most two destinations, and the lists of the three
DestinationLists ==
    {<<>>}
    \cup {<<d1>> : d1 \in CompareDestinations}
    \cup {<<d1, d2>> : d1 \in CompareDestinations,
                       d2 \in CompareDestinations}
    \cup {l \in {<<d1, d2, d3>> : d1 \in CompareDestinations,
                                   d2 \in CompareDestinations,
                                   d3 \in CompareDestinations} :
              l[1] # l[2] /\ l[1] # l[3] /\ l[2] # l[3]}

CompareGeocoders ==
    {KnownGeocode @@ (<<"Y">> :> y) :
        y \in {[status |-> "OK",
                location |-> PlaceAt(RouteLatitudes[<<"M">>])],
               [status |-> "ZERO_RESULTS"]}}

CompareRouteAnswers ==
    {(<<"M">> :> m) @@ (<<"F">> :> f) @@ (<<"Y">> :> OkRoute) :
        m \in {OkRoute, [status |-> "raises", message |-> "timeout"]},
        f \in {OkRoute, [status |-> "NOT_FOUND"]}}

InitCompare ==
    /\ zones_data \in
           {<<RouteZone(<<"E">>, RouteLatitudes[<<"E">>], 60, 40, price),
              RouteZone(<<"M">>, RouteLatitudes[<<"M">>], security, 40, 100),
              RouteZone(<<"F">>, RouteLatitudes[<<"F">>], 60, 40, 100)>> :
               price \in {100, 201}, security \in {40, 60}}
    /\ agents_db = InitialDb
    /\ call = NoCall
    /\ result = NoResult

NextCompare ==
    \E destinations \in DestinationLists, geocode \in CompareGeocoders,
       distance_matrix \in CompareRouteAnswers :
        CompareRoutes(<<"O">>, destinations,
            [geocode |-> geocode, distance_matrix |-> distance_matrix])

SpecCompare == InitCompare /\ [][NextCompare]_vars

\* -- SpecService: one database read by the five operations of the two
\* components, with calls that succeed and calls that fail, on inputs whose
\* roundings are not half-way between two values

ServiceGeocoders ==
    {KnownGeocode @@ (<<"Y">> :> y) :
        y \in {[status |-> "OK",
                location |-> PlaceAt(RouteLatitudes[<<"M">>])],
               [status |-> "raises"]}}

ServiceRouteAnswers == {OkRoute, [status |-> "NOT_FOUND"]}

InitService ==
    /\ zones_data \in
           {<<RouteZone(<<"E">>, RouteLatitudes[<<"E">>], 60, 40, price),
              RouteZone(<<"M">>, RouteLatitudes[<<"M">>], security, 40, 150),
              RouteZone(<<"F">>, RouteLatitudes[<<"F">>], 60, 80, 100)>> :
               price \in {100, 180000}, security \in {40, 60}}
    /\ agents_db = InitialDb
    /\ call = NoCall
    /\ result = NoResult

NextService ==
    \/ \E location \in {<<"E">>, <<"m">>, <<"Y">>}, price \in {0, 1000000} :
           AnalyzeProperty(location, price)
    \/ \E location \in {<<"E">>, <<"Y">>}, price \in {0, 1000000},
          holding_period \in {1, DefaultHoldingPeriod} :
           CalculateRoi(price, location, holding_period)
    \/ \E destination \in {<<"F">>, <<"Y">>}, geocode \in ServiceGeocoders,
          distance_matrix \in ServiceRouteAnswers :
           SearchRouteCorridor(<<"O">>, destination, DefaultCorridorWidth,
               <<>>, DefaultMinSecurityScore, DefaultMaxFloodRisk,
               [geocode |-> geocode, distance_matrix |-> distance_matrix])
    \/ \E destination \in {<<"F">>, <<"Y">>}, budget \in {50, 12060},
          geocode \in ServiceGeocoders,
          distance_matrix \in ServiceRouteAnswers :
           SearchByBudgetAlongRoute(<<"O">>, destination, budget, 3,
               DefaultCorridorWidth,
               [geocode |-> geocode, distance_matrix |-> distance_matrix])
    \/ \E destinations \in {<<<<"M">>, <<"F">>>>, <<<<"Y">>, <<"M">>>>},
          geocode \in ServiceGeocoders, m \in ServiceRouteAnswers :
           CompareRoutes(<<"O">>, destinations,
               [geocode |-> geocode,
                distance_matrix |->
                    (<<"M">> :> m) @@ (<<"F">> :> OkRoute)
                        @@ (<<"Y">> :> OkRoute)])

SpecService == InitService /\ [][NextService]_vars

\* -- SpecMalformed: the zone E whole, or without one of the numeric fields
\* every zone should have, read by the five operations; the route from O
\* passes E and the narrow route from M does not

RequiredNumeric ==
    {<<"flood_risk", "score">>, <<"security", "score">>,
     <<"infrastructure", "score">>,
     <<"market_data", "rental_yield">>,
     <<"market_data", "appreciation_5yr">>,
     <<"market_data", "avg_price_per_sqm">>} \cup HiddenCostReads

\* the zone without zone[group][field]
Without(zone, group, field) ==
    [zone EXCEPT ![group] =
        [f \in DOMAIN zone[group] \ {field} |-> zone[group][f]]]

MalformedZones ==
    LET whole == RouteZone(<<"E">>, RouteLatitudes[<<"E">>], 60, 40, 150)
    IN  {whole} \cup
            {Without(whole, read[1], read[2]) : read \in RequiredNumeric}

InitMalformed ==
    /\ zones_data \in {<<zone>> : zone \in MalformedZones}
    /\ agents_db = InitialDb
    /\ call = NoCall
    /\ result = NoResult

NextMalformed ==
    LET gmaps == [geocode |-> KnownGeocode, distance_matrix |-> OkRoute]
    IN  \/ \E price \in {1000000, 2000000} :
               AnalyzeProperty(<<"E">>, price)
        \/ \E price \in {1000000, 2000000},
              holding_period \in {1, DefaultHoldingPeriod} :
               CalculateRoi(price, <<"E">>, holding_period)
        \/ \E origin \in {<<"O">>, <<"M">>},
              max_price_per_sqm \in {<<>>, <<100>>},
              min_security_score \in {DefaultMinSecurityScore, 70} :
               SearchRouteCorridor(origin, <<"F">>, 1, max_price_per_sqm,
                   min_security_score, DefaultMaxFloodRisk, gmaps)
        \/ \E origin \in {<<"O">>, <<"M">>}, budget \in {12000, 24000} :
               SearchByBudgetAlongRoute(origin, <<"F">>, budget, 3, 1, gmaps)
        \/ \E destinations \in {<<<<"F">>>>, <<<<"O">>, <<"F">>>>} :
               CompareRoutes(<<"O">>, destinations,
                   [geocode |-> KnownGeocode,
                    distance_matrix |-> [d \in RouteNames |-> OkRoute]])

SpecMalformed == InitMalformed /\ [][NextMalformed]_vars

\* -- SpecLiquidity: a zone with days to sell around the two limits, and
\* market data and inputs that vary besides

DaysToSell == {0, 1, 89, 90, 91, 120, 149, 150, 151, 365}

LiquidityKey == <<"B">>

InitLiquidity ==
    /\ zones_data \in
           {<<[SampleZone(LiquidityKey) EXCEPT
                   !.market_data.days_to_sell_avg = days,
                   !.market_data.rental_yield = ry]>> :
               days \in DaysToSell, ry \in {0, 5}}
    /\ agents_db = InitialDb
    /\ call = NoCall
    /\ result = NoResult

NextLiquidity ==
    \E price \in {1000000, 2000000},
       holding_period \in {1, DefaultHoldingPeriod} :
        CalculateRoi(price, LiquidityKey, holding_period)

SpecLiquidity == InitLiquidity /\ [][NextLiquidity]_vars

\* -- SpecAgents: a fresh agent database and every sequence of the four
\* methods that change it, with valid and invalid arguments

MaxAgents == 2

MaxListings == 2

MaxRequests == 1

AgentIds == 1..MaxAgents

\* one id more than there are agents, so that a second payment of an agent
\* has an id to take
PaymentIds == 1..(MaxAgents + 1)

ListingIds == 1..MaxListings

RequestIds == 1..MaxRequests

ValidName == <<"A", "d", "a">>

ValidPhone == <<"0", "8", "0", "1", "2", "3", "4", "5", "6", "7">>

AgentEmails ==
    {<<"a", "@", "x", ".", "n", "g">>, <<"b", "@", "x", ".", "n", "g">>}

\* the arguments name, email and phone of register_agent: valid ones, and
\* one that fails each of the three tests
RegistrationForms ==
    {<<ValidName, email, ValidPhone>> : email \in AgentEmails}
    \cup {<<<<"A", "l">>, <<"a", "@", "x", ".", "n", "g">>, ValidPhone>>,
          <<ValidName, <<"a", ".", "x">>, ValidPhone>>,
          <<ValidName, <<"a", "@", "x">>, ValidPhone>>,
          <<ValidName, <<"a", "@", "x", ".", "n", "g">>, <<"0", "8", "0">>>>}

PaymentAmounts == {BadgeFee - 1, BadgeFee, BadgeFee + 1}

PropertyDetails ==
    {[location |-> <<"A", "j", "a", "h">>, price |-> 45 * Million,
      property_type |-> <<"d", "u", "p", "l", "e", "x">>],
     [location |-> <<"A", "j", "a", "h">>,
      property_type |-> <<"d", "u", "p", "l", "e", "x">>]}

\* the ids of the dict `records` of the database, none when it has no such dict
IdsOf(records) ==
    IF records \in DOMAIN agents_db THEN DOMAIN agents_db[records] ELSE {}

InitAgents ==
    /\ zones_data = <<>>
    /\ agents_db = InitialDb
    /\ call = NoCall
    /\ result = NoResult

\* the id uuid4 gives: one of the pool that is not in use. The methods
\* use an id of a listing, a payment or a request only as a key, so these
\* are drawn in the order of the pool.
Unused(pool, records) == pool \ IdsOf(records)

NextUnused(pool, records) ==
    {id \in Unused(pool, records) :
        \A other \in Unused(pool, records) : id <= other}

NextAgents ==
    \/ \E form \in RegistrationForms, uuid \in Unused(AgentIds, "agents") :
           RegisterAgent(form[1], form[2], form[3], uuid)
    \/ \E agent_id \in AgentIds, payment_amount \in PaymentAmounts,
          uuid \in NextUnused(PaymentIds, "payments") :
           VerifyAgent(agent_id, <<"r", "e", "f">>, payment_amount, uuid)
    \/ \E agent_id \in AgentIds, property_details \in PropertyDetails,
          uuid \in NextUnused(ListingIds, "listings") :
           PostListing(agent_id, property_details, uuid)
    \/ \E uuid \in NextUnused(RequestIds, "urgent_requests") :
           BroadcastUrgentRequest(<<"3", "b", "e", "d">>, <<"B", "o", "l", "a">>,
               <<"0", "8", "0">>, <<>>, <<>>, uuid)

SpecAgents == InitAgents /\ [][NextAgents]_vars

----------------------------------------------------------------------------
(* Properties *)

\* the last call was analyze_property and it returned an analysis
Analysed == call.op = "analyze_property" /\ "smart_score" \in DOMAIN result

\* the zone an analysis or an ROI result is about
ResultZone == ZoneAt(zones_data, result.location)

\* C1: for integer scores in 0..100 and a price > 0, the smart_score that
\* analyze_property returns is (100 - flood) * 0.4 + security * 0.3 +
\* infrastructure * 0.3 to one decimal, the weights fixed at 0.4 / 0.3 / 0.3;
\* scores 75 / 55 / 60 give 44.5.
C1_SmartScoreFormula ==
    (Analysed /\ call.price > 0) =>
        LET f == ResultZone.flood_risk.score
            s == ResultZone.security.score
            i == ResultZone.infrastructure.score
        IN  /\ result.smart_score = 400 - 4 * f + 3 * s + 3 * i
            /\ (f = 75 /\ s = 55 /\ i = 60) => result.smart_score = 445

C1_Witness ==
    /\ Analysed
    /\ call.price > 0
    /\ ResultZone.flood_risk.score = 75
    /\ ResultZone.security.score = 55
    /\ ResultZone.infrastructure.score = 60
    /\ result.smart_score = 445

C3_SmartScoreInRange ==
    (Analysed /\ call.price > 0) =>
        (0 <= result.smart_score /\ result.smart_score <= 1000)

C3_Witness ==
    /\ Analysed
    /\ call.price > 0
    /\ ResultZone.flood_risk.score = 0
    /\ ResultZone.security.score = 100
    /\ ResultZone.infrastructure.score = 100
    /\ result.smart_score = 1000

\* the price_range text of the zone an analysis is about
ResultRange == ResultZone.market_data.price_range

\* the bands of the price verdict as four separate rules, for a range that
\* reads low = lo * 1e6 and high = hi * 1e6
BandsAsStated(status, price, lo, hi) ==
    LET low == lo * Million
        high == hi * Million
    IN  /\ 10 * price < 9 * low => status = "UNDERPRICED"
        /\ (10 * price >= 9 * low /\ 2 * price <= low + high) => status = "FAIR"
        /\ (2 * price > low + high /\ price <= high) => status = "ELEVATED"
        /\ price > high => status = "OVERPRICED"

\* the bands taken in order, the first that applies deciding
BandsInOrder(status, price, lo, hi) ==
    LET low == lo * Million
        high == hi * Million
    IN  status = CASE 10 * price < 9 * low -> "UNDERPRICED"
                   [] 10 * price >= 9 * low /\ 2 * price <= low + high -> "FAIR"
                   [] 10 * price >= 9 * low /\ 2 * price > low + high
                        /\ price <= high -> "ELEVATED"
                   [] OTHER -> "OVERPRICED"

\* C4 as stated: whenever the range text reads Lo and Hi, the verdict is
\* UNDERPRICED when price < low * 0.9, FAIR when low * 0.9 <= price <= mid,
\* ELEVATED when mid < price <= high and OVERPRICED when price > high.
C4_BandsAsStated ==
    Analysed =>
        \A lo \in RangeNumbers, hi \in RangeNumbers,
           sep \in GoodSeparators, suffix \in Suffixes :
            ResultRange = RangeText(lo, hi, sep, suffix) =>
                BandsAsStated(result.price_analysis.status, call.price,
                              DecValue(lo), DecValue(hi))

\* C4 as amended: the four bands are tried in the order UNDERPRICED, FAIR,
\* ELEVATED, OVERPRICED and the first that applies is the verdict; for a
\* range with Lo <= Hi this is the verdict of the four rules as stated.
C4_BandsInOrder ==
    Analysed =>
        \A lo \in RangeNumbers, hi \in RangeNumbers,
           sep \in GoodSeparators, suffix \in Suffixes :
            ResultRange = RangeText(lo, hi, sep, suffix) =>
                /\ BandsInOrder(result.price_analysis.status, call.price,
                                DecValue(lo), DecValue(hi))
                /\ DecValue(lo) <= DecValue(hi) =>
                       BandsAsStated(result.price_analysis.status, call.price,
                                     DecValue(lo), DecValue(hi))

\* the range 25M - 60M and an offered 70M: OVERPRICED
C4_Witness ==
    /\ Analysed
    /\ ResultRange = RangeText(<<"2", "5">>, <<"6", "0">>, <<" ", "-", " ">>,
                               <<" ", "(", "3", "b", ")">>)
    /\ call.price = 70 * Million
    /\ result.price_analysis.status = "OVERPRICED"

PriceStatuses == {"UNDERPRICED", "FAIR", "ELEVATED", "OVERPRICED", "UNKNOWN"}

\* every (price, range) pair is classified: the analysis is a normal result
\* that carries one of the five statuses, UNKNOWN for a text the pattern
\* does not match and only for such a text
C5_Classified ==
    call.op = "analyze_property" =>
        /\ Analysed
        /\ "status" \in DOMAIN result.price_analysis
        /\ result.price_analysis.status \in PriceStatuses
        /\ ResultRange \in MalformedRanges =>
               result.price_analysis.status = "UNKNOWN"
        /\ ResultRange \in WellFormedRanges =>
               result.price_analysis.status # "UNKNOWN"

\* a classification leaves the database as it is, and the same pair
\* classified again gets the same status
C5_Repeatable ==
    /\ zones_data' = zones_data
    /\ (call.op = "analyze_property" /\ call' = call) =>
           result'.price_analysis.status = result.price_analysis.status

\* C5: the price verdict is total and idempotent: every offered price and
\* every range text, parsable or not, Hi below Lo included, gets exactly one
\* of the five statuses; a text that cannot be parsed gets UNKNOWN as a
\* normal result; classifying the same pair again gives the same status.
C5_TotalAndIdempotent == []C5_Classified /\ [][C5_Repeatable]_vars

\* a text the pattern does not match, classified UNKNOWN
C5_Witness ==
    /\ Analysed
    /\ ResultRange \in MalformedRanges
    /\ Len(ResultRange) > 0
    /\ result.price_analysis.status = "UNKNOWN"

\* the last call named a location
Called == call.op \in {"analyze_property", "calculate_roi"}

\* the last call returned the error dict
Failed == "error" \in DOMAIN result

\* no key is the location, equals it ignoring case or contains it ignoring
\* case
MatchesNoKey(zd, location) ==
    \A k \in 1..Len(zd) :
        /\ zd[k].key # location
        /\ Lower(zd[k].key) # Lower(location)
        /\ ~Contains(Lower(zd[k].key), Lower(location))

\* the fields that hold a score, a verdict or an ROI figure
ComputedFields ==
    {"smart_score", "overall_risk", "price_analysis", "hidden_costs",
     "returns", "costs", "net_analysis"}

\* C6: a location that matches no key (not exactly, not ignoring case, not
\* as a substring) makes analyze_property and calculate_roi return the
\* not-found error with the list of the available locations, and no score,
\* verdict or ROI figure.
C6_NotFoundListsLocations ==
    (Called /\ MatchesNoKey(zones_data, call.location)) =>
        /\ Failed
        /\ "available_locations" \in DOMAIN result
        /\ Len(result.available_locations) = Len(zones_data)
        /\ {result.available_locations[k] :
               k \in 1..Len(result.available_locations)} = KeySet(zones_data)
        /\ DOMAIN result \cap ComputedFields = {}

C6_Witness ==
    /\ call.op = "calculate_roi"
    /\ call.location = <<"c">>
    /\ Len(zones_data) = 2
    /\ Failed
    /\ result.available_locations = <<<<"A">>, <<"a", "b">>>>

\* the least index whose key satisfies P, given that one does
FirstIndex(zd, P(_)) ==
    CHOOSE k \in 1..Len(zd) : P(zd[k].key) /\ \A j \in 1..(k - 1) : ~P(zd[j].key)

\* the key an ordered match resolves the location to, <<"?">> when no key
\* matches: the location itself when it is a key; else the first key equal
\* to it ignoring case; else the first key that contains it ignoring case
OrderedMatch(zd, location) ==
    LET SameIgnoringCase(key) == Lower(key) = Lower(location)
        ContainsIt(key) == Contains(Lower(key), Lower(location))
    IN  IF \E k \in 1..Len(zd) : zd[k].key = location THEN location
        ELSE IF \E k \in 1..Len(zd) : SameIgnoringCase(zd[k].key)
             THEN zd[FirstIndex(zd, SameIgnoringCase)].key
        ELSE IF \E k \in 1..Len(zd) : ContainsIt(zd[k].key)
             THEN zd[FirstIndex(zd, ContainsIt)].key
        ELSE <<"?">>

\* C7: the location resolves by an ordered match: to itself when it is a
\* key; otherwise to the first key, in iteration order, that equals it
\* ignoring case; otherwise to the first key that contains the lower-cased
\* location (the key compared in lower case too, as the code does); so an
\* exact or case-insensitive match wins over a substring match on an
\* earlier key.
C7_OrderedMatch ==
    Called =>
        IF OrderedMatch(zones_data, call.location) = <<"?">>
        THEN Failed
        ELSE /\ ~Failed
             /\ "location" \in DOMAIN result
             /\ result.location = OrderedMatch(zones_data, call.location)

\* "a" resolves to the later key "A", which equals it ignoring case, not to
\* the earlier key "ab", which contains it
C7_Witness ==
    /\ Called
    /\ Keys(zones_data) = <<<<"a", "b">>, <<"A">>>>
    /\ call.location = <<"a">>
    /\ ~Failed
    /\ result.location = <<"A">>

\* the last call had a non-positive price or holding period
InvalidInput ==
    /\ Called
    /\ \/ call.price <= 0
       \/ call.op = "calculate_roi" /\ call.holding_period <= 0

\* C8: a non-positive price or holding period is rejected before any
\* computation: the call returns a failure, never a normal result and never
\* an arithmetic error.
C8_InvalidInputRejected == InvalidInput => Failed

\* the last call was calculate_roi and it returned an ROI result
RoiComputed == call.op = "calculate_roi" /\ "net_analysis" \in DOMAIN result

\* a fee of hidden_costs, nothing when the record does not have it
Fee(hidden, name) == IF name \in DOMAIN hidden THEN hidden[name] ELSE 0

\* C9: for a holding period n >= 1, total_hidden_costs = (omo onile + land
\* survey) + n * (12 * monthly generator cost + flood insurance + every
\* optional recurring fee the record has), an absent fee adding nothing.
C9_TotalHiddenCosts ==
    (RoiComputed /\ call.holding_period >= 1) =>
        LET hidden == ResultZone.hidden_costs
            one_time == hidden.omo_onile + hidden.land_survey
            yearly == 12 * hidden.generator_diesel_monthly
                          + hidden.flood_insurance
                          + Fee(hidden, "borehole_maintenance")
                          + Fee(hidden, "estate_service_charge")
        IN  result.costs.total_hidden_costs
                = one_time + call.holding_period * yearly

\* both optional fees present, three years: 650 + 3 * (96 + 20 + 5 + 30)
C9_Witness ==
    /\ RoiComputed
    /\ call.holding_period = 3
    /\ DOMAIN ResultZone.hidden_costs =
           {"omo_onile", "land_survey", "flood_insurance",
            "generator_diesel_monthly", "borehole_maintenance",
            "estate_service_charge"}
    /\ ResultZone.hidden_costs.omo_onile = 500
    /\ ResultZone.hidden_costs.generator_diesel_monthly = 8
    /\ result.costs.total_hidden_costs = 1103

\* the number a formatted text reads
Reads(f) == IF f.neg THEN -f.mag ELSE f.mag

\* C10: net_return = price * rental_yield * years + price * appreciation *
\* years - total_hidden_costs and roi_percentage = net_return / price * 100,
\* each reported to the precision of its format (whole naira, one decimal);
\* a negative roi_percentage is reported as it is, with its sign, and not
\* as 0, whenever the hidden costs exceed the gross return.
C10_NetReturnAndRoi ==
    (RoiComputed /\ call.price > 0 /\ call.holding_period >= 1) =>
        LET market == ResultZone.market_data
            price == call.price
            years == call.holding_period
            \* net_return and the gross return, times Percent
            gross == price * market.rental_yield * years
                         + price * market.appreciation_5yr * years
            net == gross - Percent * result.costs.total_hidden_costs
            shown_net == Reads(result.net_analysis.net_return)
            shown_roi == Reads(result.net_analysis.roi_percentage)
        IN  /\ 2 * Abs(Percent * shown_net - net) <= Percent
            /\ 2 * Abs(price * shown_roi - 10 * net) <= price
            /\ net < 0 =>
                   /\ result.net_analysis.roi_percentage.neg
                   /\ result.net_analysis.net_return.neg
                   /\ 20 * (-net) > price =>
                          result.net_analysis.roi_percentage.mag > 0

\* hidden costs above the gross return: a negative ROI is reported
C10_Witness ==
    /\ RoiComputed
    /\ call.price = 1000
    /\ call.holding_period = 3
    /\ result.net_analysis.roi_percentage.neg
    /\ result.net_analysis.roi_percentage.mag > 100
    /\ result.net_analysis.net_return.neg

\* C11: calculate_roi is linear in the holding period.  When a call for n
\* years is followed by a call for 2n years at the same price and location,
\* the capital gain and the total rental income of the second are twice
\* those of the first (each reported in whole naira, so within one naira of
\* twice the reported figure, and within half a naira of twice the exact
\* one), and total_hidden_costs(2n) = 2 * total_hidden_costs(n) - the
\* one-time costs.
C11_LinearInYears ==
    [][(/\ RoiComputed /\ RoiComputed'
        /\ call.price > 0 /\ call.holding_period >= 1
        /\ call'.price = call.price
        /\ call'.location = call.location
        /\ call'.holding_period = 2 * call.holding_period) =>
           LET market == ResultZone.market_data
               n == call.holding_period
               gain_n == call.price * market.appreciation_5yr * n
               rent_n == call.price * market.rental_yield * n
               shown(r) == Reads(r.returns.capital_gain)
               rents(r) == Reads(r.returns.rental_income_total)
           IN  /\ result'.costs.total_hidden_costs
                      = 2 * result.costs.total_hidden_costs
                            - result.costs.one_time_subtotal
               /\ Abs(shown(result') - 2 * shown(result)) <= 1
               /\ Abs(rents(result') - 2 * rents(result)) <= 1
               /\ 2 * Abs(Percent * shown(result') - 2 * gain_n) <= Percent
               /\ 2 * Abs(Percent * rents(result') - 2 * rent_n) <= Percent
      ]_vars

\* two years, generator and omo onile charged: 650 + 2 * 116 = 2 * 766 - 650
C11_Witness ==
    /\ RoiComputed
    /\ call.holding_period = 2
    /\ call.price = 8000
    /\ result.costs.one_time_subtotal = 650
    /\ result.costs.total_hidden_costs = 882
    /\ result.returns.capital_gain = [neg |-> FALSE, mag |-> 2400]

\* the band of the ROI num / den per cent (den > 0)
RoiBand(num, den) ==
    IF num >= 80 * den THEN "EXCELLENT"
    ELSE IF num >= 50 * den THEN "GOOD"
    ELSE IF num >= 30 * den THEN "FAIR"
    ELSE "POOR"

\* C12: the verdict of calculate_roi is EXCELLENT when the ROI is at least
\* 80 per cent, GOOD from 50 up to 80, FAIR from 30 up to 50 and POOR below
\* 30, the negative ones included; every band contains its lower bound.
C12_VerdictBands ==
    (RoiComputed /\ call.price > 0 /\ call.holding_period >= 1) =>
        LET market == ResultZone.market_data
            years == call.holding_period
            gross == call.price * market.rental_yield * years
                         + call.price * market.appreciation_5yr * years
            net == gross - Percent * result.costs.total_hidden_costs
        IN  result.net_analysis.verdict = RoiBand(net, call.price)

\* C13: the hidden-cost subtotal analyze_property reports is omo onile +
\* land survey + flood insurance; the monthly generator cost is reported in
\* a field of its own and is not part of the subtotal, and neither are the
\* optional recurring fees.
C13_HiddenSubtotal ==
    Analysed =>
        LET hidden == ResultZone.hidden_costs
        IN  /\ result.hidden_costs.total_hidden
                   = hidden.omo_onile + hidden.land_survey
                         + hidden.flood_insurance
            /\ result.hidden_costs.monthly_generator
                   = hidden.generator_diesel_monthly
            /\ result.hidden_costs.total_hidden
                   = result.hidden_costs.omo_onile
                         + result.hidden_costs.land_survey
                         + result.hidden_costs.flood_insurance

\* a generator cost of 8 a month beside a subtotal of 500 + 150 + 20
C13_Witness ==
    /\ Analysed
    /\ result.hidden_costs.monthly_generator = 8
    /\ result.hidden_costs.omo_onile = 500
    /\ result.hidden_costs.total_hidden = 670
    /\ "estate_service_charge" \in DOMAIN ResultZone.hidden_costs

\* the last call was search_route_corridor
RouteCalled == call.op = "search_route_corridor"

\* ... and it returned the properties of a corridor
Searched == RouteCalled /\ "properties" \in DOMAIN result

\* the zone names of the properties returned
MatchNames == {result.properties[k].zone_name : k \in DOMAIN result.properties}

\* a location that is neither a zone name nor found by the geocoder
Unresolved(location) ==
    /\ location \notin KeySet(zones_data)
    /\ call.gmaps.geocode[location].status # "OK"

\* the coordinates of an endpoint of the call: those of the zone of that
\* name, else those the geocoder found
Endpoint(location) ==
    IF location \in KeySet(zones_data)
    THEN ZoneAt(zones_data, location).coordinates
    ELSE call.gmaps.geocode[location].location

\* the zone is within the security and flood limits of the call, which
\* gave no price limit
WithinDefaultFilters(zone) ==
    /\ call.max_price_per_sqm = <<>>
    /\ zone.security.score >= call.min_security_score
    /\ zone.flood_risk.score <= call.max_flood_risk

\* C14: a zone within the filters is among the properties exactly when its
\* detour d(origin, p) + d(p, destination) - d(origin, destination) is at
\* most corridor_width_km, a detour equal to the width included.
C14_AlongExactlyWithinWidth ==
    Searched =>
        \A k \in DOMAIN zones_data :
            LET zone == zones_data[k]
                origin == Endpoint(call.origin)
                destination == Endpoint(call.destination)
                detour == CalculateDistance(origin, zone.coordinates)
                              + CalculateDistance(zone.coordinates, destination)
                              - CalculateDistance(origin, destination)
            IN  WithinDefaultFilters(zone) =>
                    (zone.key \in MatchNames
                         <=> detour <= call.corridor_width_km)

\* C15: every property returned has security score >= min_security_score,
\* flood risk score <= max_flood_risk and, whenever a max_price_per_sqm is
\* given, whatever its value, price per square metre <= max_price_per_sqm.
C15_FiltersAreHardExclusions ==
    Searched =>
        \A k \in DOMAIN result.properties :
            LET zone == ZoneAt(zones_data, result.properties[k].zone_name)
            IN  /\ zone.security.score >= call.min_security_score
                /\ zone.flood_risk.score <= call.max_flood_risk
                /\ call.max_price_per_sqm # <<>> =>
                       zone.market_data.avg_price_per_sqm
                           <= call.max_price_per_sqm[1]

\* C16: an origin or a destination that is the name of a zone is not among
\* the properties returned.
C16_EndpointsExcluded ==
    Searched =>
        /\ call.origin \in KeySet(zones_data) => call.origin \notin MatchNames
        /\ call.destination \in KeySet(zones_data) =>
               call.destination \notin MatchNames

\* C17: the detour computed for a zone is never negative; a zone at the
\* coordinates of the origin or of the destination has detour 0 and is
\* along the route for every corridor_width_km > 0, so it is among the
\* properties when it is within the filters.
C17_DetourNonNegative ==
    Searched =>
        \A k \in DOMAIN zones_data :
            LET zone == zones_data[k]
                origin == Endpoint(call.origin)
                destination == Endpoint(call.destination)
                detour == Detour(origin, destination, zone.coordinates)
            IN  /\ detour >= 0
                /\ zone.coordinates \in {origin, destination} =>
                       /\ detour = 0
                       /\ (call.corridor_width_km > 0
                               /\ WithinDefaultFilters(zone)) =>
                              zone.key \in MatchNames

\* a corridor of 0.01 km from O to F: the zone O at the origin is returned,
\* and so is E between the two, whose rounded distances 2.5 + 7.49 fall
\* short of the 10 km from O to F
C17_Witness ==
    /\ Searched
    /\ call.origin = <<"O">> /\ call.destination = <<"F">>
    /\ call.corridor_width_km = 1
    /\ Keys(zones_data) = <<(<<"E">>), (<<"O">>), (<<"W">>)>>
    /\ MatchNames = {<<"O">>, <<"E">>}

\* C18: the properties are in ascending order of distance_from_origin_km,
\* and two of them at the same distance are in the order of their zones in
\* the database.
C18_SortedStable ==
    Searched =>
        \A i, j \in DOMAIN result.properties :
            i < j =>
                LET a == result.properties[i]
                    b == result.properties[j]
                    Position(name) ==
                        CHOOSE k \in DOMAIN zones_data :
                            zones_data[k].key = name
                IN  /\ a.distance_from_origin_km <= b.distance_from_origin_km
                    /\ a.distance_from_origin_km = b.distance_from_origin_km
                           => Position(a.zone_name) < Position(b.zone_name)

\* W before E before O in the database, O the origin: O comes first, and W
\* and E, both 2.5 km from O, stay in this order
C18_Witness ==
    /\ Searched
    /\ call.origin = <<"O">>
    /\ Keys(zones_data) = <<(<<"W">>), (<<"E">>), (<<"O">>)>>
    /\ Len(result.properties) = 3
    /\ result.properties[1].zone_name = <<"O">>
    /\ result.properties[2].zone_name = <<"W">>
    /\ result.properties[3].zone_name = <<"E">>
    /\ result.properties[2].distance_from_origin_km = 250
    /\ result.properties[3].distance_from_origin_km = 250

\* C19: when a call is followed by a call with the same origin, destination,
\* corridor width, price and flood limits and answers of the providers and
\* a min_security_score that is not lower, the zones returned by the second
\* are among the zones returned by the first, and they are not more.
C19_MonotoneInSecurity ==
    [][(/\ Searched /\ Searched'
        /\ call'.origin = call.origin
        /\ call'.destination = call.destination
        /\ call'.corridor_width_km = call.corridor_width_km
        /\ call'.max_price_per_sqm = call.max_price_per_sqm
        /\ call'.max_flood_risk = call.max_flood_risk
        /\ call'.gmaps = call.gmaps
        /\ call'.min_security_score >= call.min_security_score) =>
           /\ MatchNames' \subseteq MatchNames
           /\ result'.properties_found <= result.properties_found
      ]_vars

\* min_security_score 60 keeps M (score 60) and drops E (score 50), which
\* is within the other limits
C19_Witness ==
    /\ Searched
    /\ call.min_security_score = 60
    /\ call.max_price_per_sqm = <<150>> /\ call.max_flood_risk = 70
    /\ zones_data[1].security.score = 50
    /\ zones_data[1].flood_risk.score = 70
    /\ zones_data[1].market_data.avg_price_per_sqm = 100
    /\ MatchNames = {<<"M">>}
    /\ result.properties_found = 1

\* C20: when the origin or the destination has no coordinates (it is not a
\* zone name and the geocoder finds nothing or fails), or the distance
\* matrix does not find the route or fails, the result is one error dict,
\* of status ERROR or NOT_FOUND, without properties.
C20_RouteUnavailable ==
    (/\ RouteCalled
     /\ \/ Unresolved(call.origin)
        \/ Unresolved(call.destination)
        \/ call.gmaps.distance_matrix.status # "OK") =>
        /\ result.status \in {"ERROR", "NOT_FOUND"}
        /\ DOMAIN result \subseteq {"status", "error"}
        /\ (Unresolved(call.origin) \/ Unresolved(call.destination)) =>
               result = [status |-> "ERROR", error |-> NoCoordinates]

\* both endpoints resolved, the second by the geocoder, and no route found
C20_Witness ==
    /\ RouteCalled
    /\ call.origin = <<"O">> /\ call.destination = <<"Y">>
    /\ call.gmaps.geocode[<<"Y">>].status = "OK"
    /\ call.gmaps.distance_matrix.status = "ZERO_RESULTS"
    /\ result = [status |-> "NOT_FOUND"]

\* security * 0.35 + infrastructure * 0.35 + (100 - flood risk) * 0.30 of a
\* property returned, in hundredths
RouteWeighted(property) ==
    property.security_score * 35 + property.infrastructure_score * 35
        + (100 - property.flood_risk_score) * 30

\* C21 as stated: the smart score of every property returned equals
\* security * 0.35 + infrastructure * 0.35 + (100 - flood risk) * 0.30.
C21_ExactWeightedSum ==
    Searched =>
        \A k \in DOMAIN result.properties :
            LET property == result.properties[k]
            IN  /\ property.security_score
                       = ZoneAt(zones_data, property.zone_name).security.score
                /\ 100 * property.smart_score = RouteWeighted(property)

\* C21: the smart score of every property returned is the whole number
\* nearest to security * 0.35 + infrastructure * 0.35 + (100 - flood risk)
\* * 0.30 of its zone; for a sum exactly half-way between two whole numbers
\* it is the even one or the lower one.
C21_RoundedWeightedSum ==
    Searched =>
        \A k \in DOMAIN result.properties :
            LET property == result.properties[k]
                zone == ZoneAt(zones_data, property.zone_name)
                sum == RouteWeighted(property)
                lower == sum \div 100
            IN  /\ property.security_score = zone.security.score
                /\ property.infrastructure_score = zone.infrastructure.score
                /\ property.flood_risk_score = zone.flood_risk.score
                /\ 2 * Abs(100 * property.smart_score - sum) <= 100
                /\ 2 * Abs(100 * property.smart_score - sum) = 100 =>
                       \/ property.smart_score = lower
                       \/ property.smart_score % 2 = 0

\* security 100, infrastructure 0, flood risk 100: 35, where the weights of
\* the analyzer give 30
C21_Witness ==
    /\ Searched
    /\ Len(result.properties) = 1
    /\ result.properties[1].security_score = 100
    /\ result.properties[1].infrastructure_score = 0
    /\ result.properties[1].flood_risk_score = 100
    /\ result.properties[1].smart_score = 35

\* the last call was search_by_budget_along_route
BudgetCalled == call.op = "search_by_budget_along_route"

\* the area of the claims for a bedroom count, in square metres
Area(bedrooms) ==
    IF bedrooms = 2 THEN 80
    ELSE IF bedrooms = 4 THEN 160
    ELSE IF bedrooms = 5 THEN 200
    ELSE 120

\* the zone names search_route_corridor returns for the endpoints and the
\* width of the call with the default security and flood limits, when the
\* zones kept by the price limit are those that satisfy Affordable
NamesWithin(Affordable(_)) ==
    {zones_data[k].key : k \in
        {j \in DOMAIN zones_data :
            /\ IsAlongRoute(Endpoint(call.origin), Endpoint(call.destination),
                   zones_data[j].coordinates, call.corridor_width_km)
            /\ zones_data[j].security.score >= DefaultMinSecurityScore
            /\ zones_data[j].flood_risk.score <= DefaultMaxFloodRisk
            /\ Affordable(zones_data[j])}}

\* C22 as stated: search_by_budget_along_route returns what
\* search_route_corridor returns for max_price_per_sqm = budget / area and
\* the default limits: the zones with price <= budget / area, and the limit
\* budget / area among its search_params.
C22_SameAsExactQuotient ==
    (BudgetCalled /\ "properties" \in DOMAIN result) =>
        LET area == Area(call.bedrooms)
            AtMostQuotient(zone) ==
                zone.market_data.avg_price_per_sqm * area <= call.budget
        IN  /\ MatchNames = NamesWithin(AtMostQuotient)
            /\ result.search_params.max_price_per_sqm # <<>>
            /\ result.search_params.max_price_per_sqm[1] * area = call.budget

\* C22: search_by_budget_along_route returns what search_route_corridor
\* returns for the same origin, destination and width, max_price_per_sqm =
\* the whole part of budget / area, min_security_score 50 and max_flood_risk
\* 70, where area is 80, 120, 160, 200 for 2, 3, 4, 5 bedrooms and 120 for
\* every other count.
C22_SameAsWholeQuotient ==
    BudgetCalled =>
        LET area == Area(call.bedrooms)
            whole == IF call.budget >= 0 THEN call.budget \div area
                     ELSE -((-call.budget) \div area)
        IN  result \in SearchResults(zones_data, call.origin,
                           call.destination, call.corridor_width_km,
                           <<whole>>, 50, 70, call.gmaps)

\* a budget of 12060 for 6 bedrooms: the limit is 100 (12060 / 120 is
\* 100.5), E at 100 is returned and M at 150 is not
C22_Witness ==
    /\ BudgetCalled
    /\ call.budget = 12060 /\ call.bedrooms = 6
    /\ "properties" \in DOMAIN result
    /\ result.search_params.max_price_per_sqm = <<100>>
    /\ zones_data[1].market_data.avg_price_per_sqm = 100
    /\ zones_data[2].market_data.avg_price_per_sqm = 150
    /\ MatchNames = {<<"E">>}

\* the last call was compare_routes
CompareCalled == call.op = "compare_routes"

\* the search of the destination succeeds: both endpoints have coordinates
\* and the distance matrix found the route
SearchSucceeds(dest) ==
    /\ ~Unresolved(call.origin)
    /\ ~Unresolved(dest)
    /\ call.gmaps.distance_matrix[dest].status = "OK"

\* the number of zones search_route_corridor matches on the route to dest
\* with its default width and limits
MatchCount(dest) ==
    Cardinality({k \in DOMAIN zones_data :
        /\ IsAlongRoute(Endpoint(call.origin), Endpoint(dest),
               zones_data[k].coordinates, DefaultCorridorWidth)
        /\ zones_data[k].security.score >= DefaultMinSecurityScore
        /\ zones_data[k].flood_risk.score <= DefaultMaxFloodRisk})

\* C23: compare_routes returns one summary for each destination of the list
\* whose search succeeded, with the number of its matches, none for a
\* destination whose search failed, and the summaries are in descending order
\* of their match count.
C23_OneSummaryPerSuccess ==
    CompareCalled =>
        /\ \A dest \in CompareDestinations :
               Cardinality({k \in DOMAIN result.comparisons :
                   result.comparisons[k].destination = dest})
               = Cardinality({k \in DOMAIN call.destinations :
                     /\ call.destinations[k] = dest
                     /\ SearchSucceeds(dest)})
        /\ \A k \in DOMAIN result.comparisons :
               result.comparisons[k].properties_found
                   = MatchCount(result.comparisons[k].destination)
        /\ \A j, k \in DOMAIN result.comparisons :
               j < k => result.comparisons[j].properties_found
                            >= result.comparisons[k].properties_found

\* the routes to M, F and Y compared: the search of M fails with an
\* exception, F with 3 matches comes before Y with 2
C23_Witness ==
    /\ CompareCalled
    /\ call.destinations = <<<<"M">>, <<"Y">>, <<"F">>>>
    /\ call.gmaps.distance_matrix[<<"M">>].status = "raises"
    /\ Len(result.comparisons) = 2
    /\ result.comparisons[1].destination = <<"F">>
    /\ result.comparisons[1].properties_found = 3
    /\ result.comparisons[2].destination = <<"Y">>
    /\ result.comparisons[2].properties_found = 2

C25_MalformedRecordFails ==
    (call.op # "none" /\ Lacks(zones_data[1], RequiredNumeric)) =>
        result = KeyError

\* C26, as stated: for a budget above 0 and any bedroom count, every zone
\* search_by_budget_along_route returns has a price per square metre of at
\* most budget / area, also when the budget is below the area.
C26_NeverOverBudget ==
    (BudgetCalled /\ call.budget > 0 /\ "properties" \in DOMAIN result) =>
        \A k \in DOMAIN result.properties :
            result.properties[k].price_per_sqm * Area(call.bedrooms)
                <= call.budget

\* C27: the liquidity calculate_roi reports is High when the days to sell of
\* the zone are below 90, Moderate from 90 to below 150 and Low from 150,
\* whatever the price, the holding period and the other market data.
C27_LiquidityBands ==
    RoiComputed =>
        LET days == zones_data[1].market_data.days_to_sell_avg
            liquidity == result.market_context.liquidity
        IN  /\ liquidity = "High" <=> days < 90
            /\ liquidity = "Moderate" <=> (90 <= days /\ days < 150)
            /\ liquidity = "Low" <=> days >= 150

\* a zone that sells in exactly 150 days is reported Low
C27_Witness ==
    /\ RoiComputed
    /\ zones_data[1].market_data.days_to_sell_avg = 150
    /\ result.market_context = [days_to_sell |-> 150, liquidity |-> "Low"]

\* the agent has a confirmed payment on record: a verify_agent for it
\* succeeded earlier
PaidFor(db, agent_id) ==
    \E p \in DOMAIN db.payments :
        /\ db.payments[p].agent_id = agent_id
        /\ db.payments[p].status = "confirmed"

\* C28: a post_listing adds a listing only for an agent for which a
\* verify_agent succeeded earlier; for an unknown agent and for an agent
\* still pending it returns an error and leaves the listings and every
\* counter (the whole database) as they were.
C28_OnlyVerifiedAgentsPost ==
    [][call'.op = "post_listing" =>
          LET agent_id == call'.agent_id
              verified == /\ agent_id \in DOMAIN agents_db.agents
                          /\ PaidFor(agents_db, agent_id)
                          /\ agents_db.agents[agent_id].status = "verified"
          IN  /\ agents_db'.listings # agents_db.listings => verified
              /\ ~verified => /\ "error" \in DOMAIN result'
                              /\ agents_db' = agents_db]_vars

\* a pending agent was refused and a verified agent has posted a listing
C28_Witness ==
    /\ call.op = "post_listing"
    /\ "error" \in DOMAIN result
    /\ result.error = "VERIFICATION REQUIRED"
    /\ \E id \in DOMAIN agents_db.agents :
           /\ id # call.agent_id
           /\ agents_db.agents[id].listings_count = 1
    /\ Cardinality(DOMAIN agents_db.listings) = 1

RECURSIVE TotalListingsCount(_, _)
\* the sum of listings_count over the agents `ids`
TotalListingsCount(agents, ids) ==
    IF ids = {} THEN 0
    ELSE LET id == CHOOSE i \in ids : TRUE
         IN  agents[id].listings_count
                 + TotalListingsCount(agents, ids \ {id})

\* the agents of the database with the status
WithStatus(status) ==
    {id \in DOMAIN agents_db.agents : agents_db.agents[id].status = status}

\* C29: from a fresh database, after any calls of register_agent,
\* verify_agent, post_listing and broadcast_urgent_request the counters of
\* stats match the records: total_agents the agents, verified_agents those
\* verified, pending_verification those pending (the two adding up to
\* total_agents, none negative), and total_listings both the listings and
\* the sum of the agents' listings_count.
C29_StatsMatchRecords ==
    LET stats == agents_db.stats
        agents == agents_db.agents
    IN  /\ stats.total_agents = Cardinality(DOMAIN agents)
        /\ stats.verified_agents = Cardinality(WithStatus("verified"))
        /\ stats.pending_verification = Cardinality(WithStatus("pending"))
        /\ stats.verified_agents + stats.pending_verification
               = stats.total_agents
        /\ stats.verified_agents >= 0 /\ stats.pending_verification >= 0
        /\ stats.total_listings = Cardinality(DOMAIN agents_db.listings)
        /\ stats.total_listings = TotalListingsCount(agents, DOMAIN agents)

\* two agents, one verified with two listings and one pending, after an
\* urgent request was broadcast
C29_Witness ==
    /\ Cardinality(WithStatus("verified")) = 1
    /\ Cardinality(WithStatus("pending")) = 1
    /\ agents_db.stats.total_listings = 2
    /\ "urgent_requests" \in DOMAIN agents_db
    /\ call.op = "post_listing"

\* the confirmed payments of the agent in the database
ConfirmedPayments(db, agent_id) ==
    {p \in DOMAIN db.payments :
        /\ db.payments[p].agent_id = agent_id
        /\ db.payments[p].status = "confirmed"}

\* C30: verify_agent makes a pending agent verified only with a payment of
\* at least 5000; for an unknown agent, a verified agent and a payment below
\* 5000 it returns an error and leaves agents, payments and stats as they
\* were. So no agent ever has two confirmed payments, and no method makes a
\* verified agent pending again.
C30_VerifiedOnceWithFullPayment ==
    [][/\ call'.op = "verify_agent" =>
              LET agent_id == call'.agent_id
                  payable ==
                      /\ agent_id \in DOMAIN agents_db.agents
                      /\ agents_db.agents[agent_id].status = "pending"
                      /\ call'.payment_amount >= 5000
              IN  IF payable
                  THEN /\ "success" \in DOMAIN result'
                       /\ agents_db'.agents[agent_id].status = "verified"
                  ELSE /\ "error" \in DOMAIN result'
                       /\ agents_db' = agents_db
       /\ \A id \in DOMAIN agents_db'.agents :
              Cardinality(ConfirmedPayments(agents_db', id)) <= 1
       /\ \A id \in WithStatus("verified") :
              /\ id \in DOMAIN agents_db'.agents
              /\ agents_db'.agents[id].status = "verified"]_vars

\* a second verify_agent of a verified agent was refused, and the agent
\* has its one payment
C30_Witness ==
    /\ call.op = "verify_agent"
    /\ "error" \in DOMAIN result
    /\ result.error = "Agent already verified"
    /\ call.payment_amount = 5000
    /\ agents_db.agents[call.agent_id].status = "verified"
    /\ Cardinality(ConfirmedPayments(agents_db, call.agent_id)) = 1

====
